---------------------------- MODULE Spec2Model ----------------------------
(***************************************************************************)
(* A model of the extension's background service worker                    *)
(* (src/extension/background.js): the Title Store (dedup + retention),     *)
(* the Archive Store and the message router that serves them.              *)
(*                                                                         *)
(* Strings the code computes on (titles, ids, dates) are sequences: a      *)
(* title is a sequence of UTF-16 code units, an id or a date a sequence of *)
(* one-character strings.  Every handler of the router is an asynchronous  *)
(* function: one action per stretch of code between two awaits.            *)
(***************************************************************************)
EXTENDS Integers, Sequences, FiniteSets, TLC

\* ------------------------------------------------------------- bounds
\* Number of requests the router receives in one behaviour.
MaxRequests == 3
\* Number of window messages posted in one behaviour.
MaxCalls == 2
\* Number of times the feed observer begins a new session in one behaviour.
MaxSessions == 3
\* Longest title the normalization is given.
MaxTitleLen == 5
\* Number of times the web page is mounted and runs its effect.
MaxRuns == 2

\* ------------------------------------------------- program constants
BATCH_RETENTION_DAYS == 14
ARCHIVE_MAX == 365

RetentionMs == BATCH_RETENTION_DAYS * 24 * 60 * 60 * 1000

\* ------------------------------------------------ JavaScript values
\* A property that is absent from an object reads as undefined.
Undefined == "undefined"
\* x || y on strings: undefined and '' are falsy.
OrStr(x, y) == IF x \in {Undefined, ""} THEN y ELSE x
\* x || y on sequences (strings held as sequences): '' is falsy.
OrSeq(x, y) == IF x = <<>> THEN y ELSE x
\* x || y on numbers: 0 (the model's absent timestamp as well) is falsy.
OrNum(x, y) == IF x = 0 THEN y ELSE x
MaxNum(x, y) == IF x >= y THEN x ELSE y
MinNum(x, y) == IF x <= y THEN x ELSE y

\* ----------------------------------------------- String.prototype
\* Code units /\s/ and trim() treat as white space (those below 256).
WhiteSpace == {9, 10, 11, 12, 13, 32, 160}

RECURSIVE TrimLeft(_)
TrimLeft(s) ==
  IF s # <<>> /\ Head(s) \in WhiteSpace THEN TrimLeft(Tail(s)) ELSE s

RECURSIVE TrimRight(_)
TrimRight(s) ==
  IF s # <<>> /\ s[Len(s)] \in WhiteSpace
  THEN TrimRight(SubSeq(s, 1, Len(s) - 1))
  ELSE s

Trim(s) == TrimRight(TrimLeft(s))

\* toLowerCase on Basic Latin and Latin-1 letters.
LowerCode(c) ==
  IF c \in 65..90 \/ c \in ((192..222) \ {215}) THEN c + 32 ELSE c

ToLowerCase(s) == [i \in 1..Len(s) |-> LowerCode(s[i])]

\* normalize('NFKD') on the code units the model uses: e-acute and e-grave
\* decompose into e plus a combining mark, the no-break space into a space.
Decompose(c) ==
  CASE c = 233 -> <<101, 769>>
    [] c = 232 -> <<101, 768>>
    [] c = 160 -> <<32>>
    [] OTHER -> <<c>>

RECURSIVE NormalizeNFKD(_)
NormalizeNFKD(s) ==
  IF s = <<>> THEN <<>> ELSE Decompose(Head(s)) \o NormalizeNFKD(Tail(s))

\* replace(/[\u0300-\u036f]/g, '')
StripDiacritics(s) == SelectSeq(s, LAMBDA c : c \notin 768..879)

\* replace(/[\s\t\n\r]+/g, ' '): every maximal white-space run becomes ' '.
RECURSIVE CollapseWhitespace(_)
CollapseWhitespace(s) ==
  IF s = <<>> THEN <<>>
  ELSE IF Head(s) \in WhiteSpace
       THEN <<32>> \o CollapseWhitespace(TrimLeft(s))
       ELSE <<Head(s)>> \o CollapseWhitespace(Tail(s))

\* replace(/["'`]+/g, '')
StripQuotes(s) == SelectSeq(s, LAMBDA c : c \notin {34, 39, 96})

normalizeTitle(t) ==
  Trim(StripQuotes(CollapseWhitespace(StripDiacritics(NormalizeNFKD(ToLowerCase(t))))))

\* ------------------------------------------------------------ hashStr
\* djb2 on 32-bit integers: h = (h * 33 + c) mod 2^32, kept as two 16-bit
\* halves <<hi, lo>> so that no intermediate value leaves the integers TLC has.
RECURSIVE djb2(_, _, _)
djb2(s, hi, lo) ==
  IF s = <<>> THEN <<hi, lo>>
  ELSE LET l == lo * 33 + Head(s)
           h == hi * 33 + (l \div 65536)
       IN  djb2(Tail(s), h % 65536, l % 65536)

HexDigits == <<"0", "1", "2", "3", "4", "5", "6", "7",
               "8", "9", "a", "b", "c", "d", "e", "f">>

\* Number.prototype.toString(16) of a natural number.
RECURSIVE ToHex(_)
ToHex(n) ==
  IF n < 16 THEN <<HexDigits[n + 1]>>
  ELSE ToHex(n \div 16) \o <<HexDigits[(n % 16) + 1]>>

\* The four hex digits of a 16-bit half, leading zeros kept.
Hex4(n) ==
  <<HexDigits[(n \div 4096) + 1], HexDigits[((n \div 256) % 16) + 1],
    HexDigits[((n \div 16) % 16) + 1], HexDigits[(n % 16) + 1]>>

\* (h >>> 0).toString(16)
hashStr(s) ==
  LET h == djb2(s, 0, 5381)
  IN  IF h[1] = 0 THEN ToHex(h[2]) ELSE ToHex(h[1]) \o Hex4(h[2])

\* ------------------------------------------------------ sanitizeEvent
ALLOWED_TYPES == {"feed_video", "shorts_video"}

\* The value standing for null (a rejected payload, an absent message).
Null == [null |-> TRUE]

\* p.ts || Date.now(): a payload without the key reads as undefined.
TsOrNow(p, now) == IF "ts" \in DOMAIN p THEN OrNum(p.ts, now) ELSE now

\* Variants of sanitizeEvent: one that keeps the title as given, one that
\* stamps every event with the current time.
sanitizeEventUntrimmed(p, now) ==
  IF p = Null \/ p.type \notin ALLOWED_TYPES THEN Null
  ELSE IF Trim(p.title) = <<>> THEN Null
  ELSE [ts |-> TsOrNow(p, now), type |-> p.type, title |-> p.title,
        videoId |-> p.videoId, href |-> p.href, page |-> p.page,
        platform |-> OrStr(p.platform, "youtube")]
sanitizeEventRestamped(p, now) ==
  IF p = Null \/ p.type \notin ALLOWED_TYPES THEN Null
  ELSE IF Trim(p.title) = <<>> THEN Null
  ELSE [ts |-> now, type |-> p.type, title |-> Trim(p.title),
        videoId |-> p.videoId, href |-> p.href, page |-> p.page,
        platform |-> OrStr(p.platform, "youtube")]

sanitizeEvent(p, now) ==
  IF p = Null \/ p.type \notin ALLOWED_TYPES THEN Null
  ELSE LET title == Trim(p.title)
       IN  IF title = <<>> THEN Null
           ELSE [ts |-> TsOrNow(p, now), type |-> p.type, title |-> title,
                 videoId |-> p.videoId, href |-> p.href, page |-> p.page,
                 platform |-> OrStr(p.platform, "youtube")]

\* ------------------------------------------ updateTitlesBatchFromEvent
keepAfter(now) == now - RetentionMs

\* Math.max(cleaned[i].ts || 0, evt.ts || now)
RefreshedTsMin(old, evt, now) == MinNum(OrNum(old, 0), OrNum(evt.ts, now))
RefreshedTs(old, evt, now) == MaxNum(OrNum(old, 0), OrNum(evt.ts, now))

\* titles_batch.filter(x => x && x.ts >= keepAfter)
Cleaned(batch, now) == SelectSeq(batch, LAMBDA x : x.ts >= keepAfter(now))

\* The first index of cleaned holding id, 0 when there is none.
IndexOfId(cleaned, id) ==
  IF \E i \in 1..Len(cleaned) : cleaned[i].id = id
  THEN CHOOSE i \in 1..Len(cleaned) :
         /\ cleaned[i].id = id
         /\ \A j \in 1..(i - 1) : cleaned[j].id # id
  ELSE 0

NewEntry(evt, id, now) ==
  [id |-> id, title |-> evt.title, ts |-> OrNum(evt.ts, now),
   platform |-> OrStr(evt.platform, "youtube")]

\* The list the update writes, from the list it read, the event and its now.
UpdatedBatchAlwaysPush(batch, evt, now) ==
  LET cleaned == Cleaned(batch, now)
      norm == normalizeTitle(evt.title)
  IN  IF norm = <<>> THEN cleaned
      ELSE Append(cleaned, NewEntry(evt, hashStr(norm), now))
UpdatedBatch(batch, evt, now) ==
  LET cleaned == Cleaned(batch, now)
      norm == normalizeTitle(evt.title)
  IN  IF norm = <<>> THEN cleaned
      ELSE LET id == hashStr(norm)
               i == IndexOfId(cleaned, id)
           IN  IF i # 0
               THEN [cleaned EXCEPT ![i] =
                       [cleaned[i] EXCEPT !.ts = RefreshedTs(cleaned[i].ts, evt, now)]]
               ELSE Append(cleaned, NewEntry(evt, id, now))

\* ----------------------------------------------------------- ackTitles
\* titles_batch.filter(x => x && !drop.has(x.id))
KeptAfterAck(batch, ids) == SelectSeq(batch, LAMBDA x : x.id \notin ids)

\* -------------------------------------------------------- Date, String
\* The decimal digits of n, in w places.
RECURSIVE Pad(_, _)
Pad(n, w) ==
  IF w = 0 THEN <<>> ELSE Append(Pad(n \div 10, w - 1), HexDigits[(n % 10) + 1])

\* Year, month and day (UTC) of the day that begins `days` days after
\* 1970-01-01, in the proleptic Gregorian calendar.
CivilFromDays(days) ==
  LET z == days + 719468
      era == z \div 146097
      doe == z - era * 146097
      yoe == (doe - doe \div 1460 + doe \div 36524 - doe \div 146096) \div 365
      doy == doe - (365 * yoe + yoe \div 4 - yoe \div 100)
      mp == (5 * doy + 2) \div 153
      m == IF mp < 10 THEN mp + 3 ELSE mp - 9
  IN  [year |-> yoe + era * 400 + (IF m <= 2 THEN 1 ELSE 0),
       month |-> m,
       day |-> doy - (153 * mp + 2) \div 5 + 1]

\* new Date(t).toISOString(): YYYY-MM-DDTHH:mm:ss.sssZ, in UTC.
toISOString(t) ==
  LET date == CivilFromDays(t \div 86400000)
      rem == t % 86400000
  IN  Pad(date.year, 4) \o <<"-">> \o Pad(date.month, 2) \o <<"-">>
        \o Pad(date.day, 2) \o <<"T">> \o Pad(rem \div 3600000, 2) \o <<":">>
        \o Pad((rem \div 60000) % 60, 2) \o <<":">>
        \o Pad((rem \div 1000) % 60, 2) \o <<".">> \o Pad(rem % 1000, 3)
        \o <<"Z">>

\* s.slice(from, to) for 0 <= from <= to.
Slice(s, from, to) == SubSeq(s, from + 1, MinNum(to, Len(s)))

\* s.replaceAll(x, y) for a one-character x.
ReplaceAll(s, x, y) == [i \in 1..Len(s) |-> IF s[i] = x THEN y ELSE s[i]]

\* -------------------------------------------------------- appendPiece
\* A piece or a stored entry is a record of date, title, source, url,
\* image_url and imageUrl.  An absent key holds Undefined; the date is a
\* sequence of characters, and an absent date is the empty one (both are
\* falsy where the code reads them).
\* new Date().toISOString().slice(0, 10).replaceAll('-', '/')
TodayDashes(now) == Slice(toISOString(now), 0, 10)
Today(now) == ReplaceAll(Slice(toISOString(now), 0, 10), "-", "/")

\* piece.image_url || piece.imageUrl || ''
ImageOf(p) == OrStr(p.image_url, OrStr(p.imageUrl, ""))

\* The object appendPiece unshifts.
ArchiveEntry(piece, now) ==
  LET d == OrSeq(piece.date, Today(now))
      img == ImageOf(piece)
  IN  [date |-> d,
       title |-> OrStr(piece.title, ""),
       source |-> OrStr(piece.source, ""),
       url |-> OrStr(piece.url, ""),
       image_url |-> img,
       imageUrl |-> img]

\* arr.slice(0, ARCHIVE_MAX)
CroppedOneMore(arr) == SubSeq(arr, 1, MinNum(Len(arr), ARCHIVE_MAX + 1))
Cropped(arr) == SubSeq(arr, 1, MinNum(Len(arr), ARCHIVE_MAX))

\* What appendPiece writes, given the archive it read.
AppendedArchive(archive, piece, now) ==
  Cropped(<<ArchiveEntry(piece, now)>> \o archive)

\* --------------------------------------------------------- getArchive
\* The function getArchive maps over the stored entries.
Mapped(p) ==
  LET img == ImageOf(p)
  IN  IF img # "" /\ (OrStr(p.imageUrl, "") = "" \/ OrStr(p.image_url, "") = "")
      THEN [p EXCEPT !.image_url = OrStr(p.image_url, img),
                     !.imageUrl = OrStr(p.imageUrl, img)]
      ELSE p

MappedArchive(archive) == [i \in 1..Len(archive) |-> Mapped(archive[i])]


\* ---------------------------------------------------------- getRecent
\* The index of the event the cursor on by_ts, direction 'prev', visits
\* first among those at the indexes in S: the greatest ts, and for equal ts
\* the one added last (the greatest key).
LatestOf(log, S) ==
  CHOOSE i \in S :
    \A j \in S : log[j].ts < log[i].ts \/ (log[j].ts = log[i].ts /\ j <= i)

RECURSIVE CursorFrom(_, _, _)
CursorFrom(log, S, limit) ==
  IF S = {} \/ limit = 0 THEN <<>>
  ELSE LET i == LatestOf(log, S)
       IN  <<log[i]>> \o CursorFrom(log, S \ {i}, limit - 1)

\* getRecent(limit): the events by descending ts, at most limit of them.
getRecent(log, limit) == CursorFrom(log, 1..Len(log), limit)

\* ------------------------------------------------ setProfileHistogram
\* An object is a function from its keys: { ...profile, updated_at: now }
\* has the keys of profile and updated_at, which holds now.
ProfilePayloadAsGiven(profile, now) == profile
ProfilePayload(profile, now) == ("updated_at" :> now) @@ profile

\* --------------------------------------------- clearProfileAndArchive
\* chrome.storage.local.set(obj): the value of a key after the call.
Written(obj, key, old) == IF key \in DOMAIN obj THEN obj[key] ELSE old

\* The object clearProfileAndArchive passes to setStore.
ClearedKeysAndTitles(now) ==
  [profile_histogram |-> Null, pieces_archive |-> <<>>,
   last_webapp_sync_at |-> now, titles_batch |-> <<>>]
ClearedKeys(now) ==
  [profile_histogram |-> Null, pieces_archive |-> <<>>,
   last_webapp_sync_at |-> now]

\* ---------------------------------------------------------- getStatus
\* { last_webapp_sync_at: st.last_webapp_sync_at || null }
StatusOf(sync) == [last_webapp_sync_at |-> IF sync = 0 THEN Null ELSE sync]

\* ------------------------------------------------------------- inputs
\* Titles a page can show: "Aa" and "aa" normalize to the same string, "b@"
\* normalizes to another string with the same djb2 hash as "aa", "bb" has
\* an id of its own and "'" normalizes to the empty string.
TitleAa == <<65, 97>>
Titleaa == <<97, 97>>
TitleBAt == <<98, 64>>
TitleBb == <<98, 98>>
TitleQuote == <<39>>

\* The instants Date.now() returns, in milliseconds since the epoch: two
\* that are exactly one retention window and one window plus 1 ms after
\* the first.
StartTime == 200
ClockValues == {StartTime, StartTime + RetentionMs, StartTime + RetentionMs + 1}

\* A timestamp a payload carries that is earlier than every clock value;
\* a payload with ts 0 (falsy) is one without a timestamp.
EarlyTs == 50

\* The payloads of LCL_ADD_EVENT (content.js sends type, title, ts,
\* platform, videoId, href, page among other keys).
Payload(title, ts) ==
  [type |-> "feed_video", title |-> title, ts |-> ts, platform |-> "youtube",
   videoId |-> "vid00001", href |-> "https://www.youtube.com/watch?v=vid00001",
   page |-> "/"]

Payloads ==
  {Payload(TitleAa, 0), Payload(Titleaa, EarlyTs), Payload(TitleBAt, 0),
   Payload(TitleBb, 0), Payload(TitleQuote, 0)}

\* Candidates for sanitizeEvent: no payload, a type that is not allowed,
\* titles that are empty or white space only, a title with white space
\* around it and one with white space inside, and timestamps that are
\* absent, 0 and given; the platform is absent or named.
WithoutTs(p) == [k \in DOMAIN p \ {"ts"} |-> p[k]]
Candidate(type, title, ts, platform) ==
  [Payload(title, ts) EXCEPT !.type = type, !.platform = platform]
TitlePadded == <<32, 65, 97, 10>>
TitleSpaced == <<65, 32, 97>>
Candidates ==
  {Null,
   Candidate("ad_video", TitleAa, EarlyTs, "youtube"),
   Candidate("feed_video", <<>>, EarlyTs, "youtube"),
   Candidate("feed_video", <<32, 9>>, EarlyTs, "youtube"),
   Candidate("shorts_video", TitlePadded, EarlyTs, "youtube"),
   Candidate("feed_video", TitleSpaced, 0, "shorts"),
   WithoutTs(Candidate("feed_video", TitleAa, 0, Undefined))}

IdAa == hashStr(<<97, 97>>)
IdBb == hashStr(<<98, 98>>)
\* An id no modelled title has.
IdNone == <<"0">>
\* What ACK_TITLES may carry as ids: a value that is no list, or a list
\* (its elements as a set: the code builds a Set from it).
NotAList == {<<"not a list">>}
AckArgs == {NotAList, {}, {IdAa}, {IdBb, IdNone}}

\* The pieces APPEND_PIECE carries (web/lib/bridge.ts, type Piece): the
\* one of the spec's scenario, with a title and a url only; one with a date
\* and an image under image_url; one with an image under imageUrl.
GivenDate == <<"2", "0", "2", "4", "/", "0", "5", "/", "0", "6">>
NoPiece ==
  [date |-> <<>>, title |-> Undefined, source |-> Undefined,
   url |-> Undefined, image_url |-> Undefined, imageUrl |-> Undefined]
PieceX == [NoPiece EXCEPT !.title = "X", !.url = "http://x"]
PieceDated ==
  [NoPiece EXCEPT !.date = GivenDate, !.title = "Y", !.source = "s",
                  !.url = "http://y", !.image_url = "http://y/i.png"]
PieceCamel == [NoPiece EXCEPT !.title = "Z", !.imageUrl = "http://z/i.png"]
Pieces == {PieceX, PieceDated, PieceCamel}

\* Archives the extension can start a session with: none; one whose
\* entries were stored before both image keys were written (only image_url,
\* only imageUrl, neither: the shape {date, title, source, url} of the
\* storage contract); one that earlier appends filled to one below the cap.
LegacyEntry(title, image_url, imageUrl) ==
  [date |-> GivenDate, title |-> title, source |-> "", url |-> "",
   image_url |-> image_url, imageUrl |-> imageUrl]
LegacyArchive ==
  <<LegacyEntry("snake", "http://o/a.png", Undefined),
    LegacyEntry("camel", Undefined, "http://o/b.png"),
    LegacyEntry("plain", Undefined, Undefined)>>
OldPiece(k) == [NoPiece EXCEPT !.date = GivenDate, !.title = ToString(k)]
FilledArchive(n) ==
  [i \in 1..n |-> ArchiveEntry(OldPiece(n + 1 - i), StartTime)]
InitialArchives == {<<>>, LegacyArchive, FilledArchive(ARCHIVE_MAX - 1)}

\* The histograms SET_PROFILE carries (web/lib/bridge.ts, type
\* ProfileHistogram): one with t0 and t1, one with t0 only, one that has an
\* updated_at of its own.
StaleStamp == 7
ProfileFull == [t0 |-> [music |-> 2, news |-> 1], t1 |-> [jazz |-> 2]]
ProfileT0 == [t0 |-> [sports |-> 3]]
ProfileStamped ==
  [t0 |-> [music |-> 1], t1 |-> [rock |-> 1], updated_at |-> StaleStamp]
Profiles == {ProfileFull, ProfileT0, ProfileStamped}

Requests == 1..MaxRequests
\* The window messages, numbered in the order they are posted; a message's
\* number stands for the requestId pmSend draws for it.
Calls == 1..MaxCalls

\* ================================================ content.js: extractor
\* The pattern classes \d and \s on code units.
IsDigit(c) == c \in 48..57

\* The first index at or after i that holds no digit (no white space).
RECURSIVE SkipDigits(_, _)
SkipDigits(s, i) ==
  IF i <= Len(s) /\ IsDigit(s[i]) THEN SkipDigits(s, i + 1) ELSE i

RECURSIVE SkipSpace(_, _)
SkipSpace(s, i) ==
  IF i <= Len(s) /\ s[i] \in WhiteSpace THEN SkipSpace(s, i + 1) ELSE i

\* parseInt(digits, 10) and String(n) on natural numbers.
RECURSIVE parseInt(_)
parseInt(d) ==
  IF d = <<>> THEN 0
  ELSE parseInt(SubSeq(d, 1, Len(d) - 1)) * 10 + (d[Len(d)] - 48)

RECURSIVE ToDec(_)
ToDec(n) ==
  IF n < 10 THEN <<48 + n>> ELSE ToDec(n \div 10) \o <<48 + (n % 10)>>

\* pad = x => String(x).padStart(2, '0')
pad(x) == IF x < 10 THEN <<48>> \o ToDec(x) ELSE ToDec(x)

\* The unit words of durationSuffixRe, in the order the pattern allows them:
\* 'hour', 'minute', 'second'.
UnitWords ==
  << <<104, 111, 117, 114>>,
     <<109, 105, 110, 117, 116, 101>>,
     <<115, 101, 99, 111, 110, 100>> >>

\* The pattern is case-insensitive (/i).
WordAt(s, i, w) ==
  /\ i + Len(w) - 1 <= Len(s)
  /\ ToLowerCase(SubSeq(s, i, i + Len(w) - 1)) = w

NoUnit == [unit |-> 0, val |-> 0, next |-> 0]

\* \d+\s+hours? (minutes?, seconds?) at index i: which unit, its number and
\* the index after it; NoUnit when s does not go on like that.
DurationUnit(s, i) ==
  LET d == SkipDigits(s, i)
      w == SkipSpace(s, d)
  IN  IF d = i \/ w = d \/ ~(\E k \in 1..3 : WordAt(s, w, UnitWords[k]))
      THEN NoUnit
      ELSE LET k == CHOOSE k \in 1..3 : WordAt(s, w, UnitWords[k])
               e == w + Len(UnitWords[k])
           IN  [unit |-> k, val |-> parseInt(SubSeq(s, i, d - 1)),
                next |-> IF e <= Len(s) /\ s[e] \in {115, 83}
                         THEN e + 1 ELSE e]

\* The capture group of durationSuffixRe from index i to the end of s:
\* hours, minutes and seconds in that order, each at most once, joined by
\* ',\s*'. The units found, <<>> when s does not end in such a phrase there.
RECURSIVE DurationPhrase(_, _, _)
DurationPhrase(s, i, least) ==
  LET u == DurationUnit(s, i)
  IN  IF u.unit < least \/ u.unit = 0 THEN <<>>
      ELSE IF u.next = Len(s) + 1 THEN <<u>>
      ELSE IF s[u.next] # 44 THEN <<>>
      ELSE LET rest == DurationPhrase(s, SkipSpace(s, u.next + 1), u.unit + 1)
           IN  IF rest = <<>> THEN <<>> ELSE <<u>> \o rest

\* (?:\s*-?\s*)? from index j: where the capture group has to begin.
PrefixEnd(s, j) ==
  LET a == SkipSpace(s, j)
      b == IF a <= Len(s) /\ s[a] = 45 THEN a + 1 ELSE a
  IN  SkipSpace(s, b)

\* rawTitle.match(durationSuffixRe): the leftmost index the pattern matches
\* at (m.index + 1), 0 when there is no match.
MatchIndex(s) ==
  LET starts == {j \in 1..Len(s) : DurationPhrase(s, PrefixEnd(s, j), 1) # <<>>}
  IN  IF starts = {} THEN 0
      ELSE CHOOSE j \in starts : \A k \in starts : j <= k

\* The number the phrase gives for unit k, 0 when it has none (h, mi, s).
UnitValue(units, k) ==
  IF \E x \in 1..Len(units) : units[x].unit = k
  THEN units[CHOOSE x \in 1..Len(units) : units[x].unit = k].val
  ELSE 0

\* A variant that writes the numbers as they are, without pad.
FormatLengthUnpadded(h, mi, s) ==
  IF h # 0 THEN ToDec(h) \o <<58>> \o ToDec(mi) \o <<58>> \o ToDec(s)
  ELSE IF mi # 0 \/ s # 0 THEN ToDec(mi) \o <<58>> \o ToDec(s)
  ELSE <<>>

\* if (h) h:mm:ss else if (mi || s) m:ss; otherwise length stays ''.
FormatLength(h, mi, s) ==
  IF h # 0 THEN ToDec(h) \o <<58>> \o pad(mi) \o <<58>> \o pad(s)
  ELSE IF mi # 0 \/ s # 0 THEN ToDec(mi) \o <<58>> \o pad(s)
  ELSE <<>>

\* processNode, lines 107-126: the title without its trailing duration
\* words, and the length they give when the node showed none.
StripDurationKeepTitle(rawTitle, length) ==
  [title |-> rawTitle, length |-> length]
StripDuration(rawTitle, length) ==
  LET j == MatchIndex(rawTitle)
  IN  IF j = 0 THEN [title |-> rawTitle, length |-> length]
      ELSE LET units == DurationPhrase(rawTitle, PrefixEnd(rawTitle, j), 1)
           IN  [title |-> Trim(SubSeq(rawTitle, 1, j - 1)),
                length |-> IF length = <<>>
                           THEN FormatLength(UnitValue(units, 1),
                                             UnitValue(units, 2),
                                             UnitValue(units, 3))
                           ELSE length]

VARIABLES
  clock,                \* Date.now()
  titles_batch,         \* chrome.storage.local: titles_batch
  pieces_archive,       \* chrome.storage.local: pieces_archive
  last_webapp_sync_at,  \* chrome.storage.local: last_webapp_sync_at (0: unset)
  profile_histogram,    \* chrome.storage.local: profile_histogram
  events,               \* IndexedDB object store 'events'
  titlesQueue,          \* __titlesQueue: the request whose update is its tail
  msg,                  \* the message of each request
  pc,                   \* where each request's handler stands
  loc,                  \* the handler's local variables
  resp,                 \* what sendResponse was called with
  sightings,            \* history: the updates that ran (id, norm, ts)
  lastUpdateNow,        \* history: now of the latest update that ran
  appendLog,            \* history: the entries appendPiece wrote, newest first
  sequential,           \* history: no APPEND_PIECE began during another
  winMsgs,              \* the window messages the relay's listener gets
  outbox,               \* the events the relay posted back, oldest first
  callers,              \* pmSend: the promise of each call
  orch,                 \* AnalysisClient: the run of its effect
  location,             \* location.pathname of the page
  dom,                  \* the nodes of the page
  seen,                 \* content.js: seen, keys <<videoId, page>>
  shortsSeen,           \* content.js: shortsSeen
  positionCounter,      \* content.js: positionCounter
  currentPath,          \* content.js: currentPath
  pendingNodes,         \* content.js: pendingNodes
  observed,             \* the nodes io observes
  timers,               \* the callbacks setTimeout holds
  sent,                 \* history: the candidates send was called with
  session,              \* history: how many times seen was cleared
  retries               \* history: the retries scheduled for each node

vars == <<clock, titles_batch, pieces_archive, last_webapp_sync_at,
          profile_histogram, events,
          titlesQueue, msg, pc, loc, resp, sightings, lastUpdateNow,
          appendLog, sequential, winMsgs, outbox, callers, orch,
          location, dom, seen, shortsSeen, positionCounter, currentPath,
          pendingNodes, observed, timers, sent, session, retries>>

storeVars == <<titles_batch, pieces_archive, last_webapp_sync_at,
               profile_histogram, events>>
archiveVars == <<pieces_archive, last_webapp_sync_at, appendLog, sequential>>
titleHistVars == <<sightings, lastUpdateNow>>
relayVars == <<winMsgs, outbox, callers, orch>>
feedVars == <<location, dom, seen, shortsSeen, positionCounter, currentPath,
              pendingNodes, observed, timers, sent, session, retries>>

NoMsg == [type |-> "none", payload |-> Null, ids |-> {}, piece |-> Null,
          profile |-> Null, limit |-> 0, via |-> "internal"]
NoResp == [ok |-> FALSE, kind |-> "none", data |-> <<>>]
NoLoc == [evt |-> Null, pred |-> 0, ticket |-> 0, overlap |-> {},
          now |-> 0, snap |-> <<>>, failed |-> FALSE]

Ok == [ok |-> TRUE, kind |-> "ok", data |-> <<>>]
\* sendResponse({ok: true, stored}); a variant that always says stored.
StoredAlways(b) == [ok |-> TRUE, kind |-> "stored", data |-> <<>>]
Stored(b) == [ok |-> TRUE, kind |-> IF b THEN "stored" ELSE "not stored",
              data |-> <<>>]
Data(d) == [ok |-> TRUE, kind |-> "data", data |-> d]
\* sendResponse({ok: false, error: 'unsupported'})
Unsupported == [ok |-> FALSE, kind |-> "unsupported", data |-> <<>>]
\* sendResponse({ok: false, error: String(e)}) of the catch clause.
Failed == [ok |-> FALSE, kind |-> "error", data |-> <<>>]

\* A handler that returned: its locals are gone (the history fields stay).
Finished(l) == [l EXCEPT !.now = 0, !.snap = <<>>]

\* Requests are numbered in the order the router receives them.
IsNext(r) == pc[r] = "idle" /\ (IF r = 1 THEN TRUE ELSE pc[r - 1] # "idle")

\* The router receives message m as request r.
Receive(r, m, p, l, a) ==
  /\ msg' = [msg EXCEPT ![r] = m]
  /\ pc' = [pc EXCEPT ![r] = p]
  /\ loc' = [loc EXCEPT ![r] = l]
  /\ resp' = [resp EXCEPT ![r] = a]

\* A message of a sender other than the relay.
Issue(r, m, p, l, a) ==
  /\ Receive(r, m, p, l, a)
  /\ UNCHANGED <<relayVars, feedVars>>

Step(r, p, l, a) ==
  /\ pc' = [pc EXCEPT ![r] = p]
  /\ loc' = [loc EXCEPT ![r] = l]
  /\ resp' = [resp EXCEPT ![r] = a]
  /\ UNCHANGED <<msg, relayVars, feedVars>>

\* -------------------------------------------------------------- clock
Tick ==
  /\ \E t \in ClockValues : t > clock /\ clock' = t
  /\ UNCHANGED <<storeVars, titlesQueue, msg, pc, loc, resp, titleHistVars,
                 appendLog, sequential, relayVars, feedVars>>

\* ------------------------------------------------------ LCL_ADD_EVENT
\* onMessage: sanitizeEvent runs at once; a rejected payload is answered
\* {ok, stored: false}, an accepted one goes on to await addEvent(compact).
ReceiveAddEvent(r, p) ==
  /\ IsNext(r)
  /\ LET compact == sanitizeEvent(p, clock)
         m == [NoMsg EXCEPT !.type = "LCL_ADD_EVENT", !.payload = p]
     IN  IF compact = Null
         THEN Issue(r, m, "done", NoLoc, Stored(FALSE))
         ELSE Issue(r, m, "addEvent", [NoLoc EXCEPT !.evt = compact], NoResp)
  /\ UNCHANGED <<clock, storeVars, titlesQueue, titleHistVars, appendLog,
                 sequential>>

\* Whether a request's update is enqueued and has not written yet.
UpdatePending(q) == pc[q] \in {"queued", "updWrite"}

\* addEvent resolved: the event is in the log, and enqueueTitlesUpdate
\* chains the update on the promise __titlesQueue holds.
AddEventDone(r) ==
  /\ pc[r] = "addEvent"
  /\ events' = Append(events, loc[r].evt)
  /\ titlesQueue' = r
  /\ Step(r, "queued",
          [loc[r] EXCEPT !.pred = titlesQueue,
                         !.ticket = 1 + Cardinality({q \in Requests : loc[q].ticket > 0}),
                         !.overlap = {q \in Requests : UpdatePending(q)}],
          NoResp)
  /\ UNCHANGED <<clock, titles_batch, profile_histogram, archiveVars,
                 titleHistVars>>

\* __titlesQueue.then(...): the update starts when the promise it was
\* chained on has settled.
CanStartUnchained(r) == TRUE
\* A chain without the catch: a rejected update rejects what follows it.
CanStartAfterSuccess(r) ==
  IF loc[r].pred = 0 THEN TRUE
  ELSE pc[loc[r].pred] = "done" /\ ~loc[loc[r].pred].failed
CanStart(r) == IF loc[r].pred = 0 THEN TRUE ELSE pc[loc[r].pred] = "done"

\* updateTitlesBatchFromEvent up to the end of its await getStore.
UpdateRead(r) ==
  /\ pc[r] = "queued"
  /\ CanStart(r)
  /\ Step(r, "updWrite", [loc[r] EXCEPT !.now = clock, !.snap = titles_batch],
          NoResp)
  /\ UNCHANGED <<clock, storeVars, titlesQueue, titleHistVars, appendLog,
                 sequential>>

\* The rest of it: setStore({titles_batch: cleaned}), then the handler's
\* sendResponse({ok, stored: true}).
UpdateWrite(r) ==
  /\ pc[r] = "updWrite"
  /\ titles_batch' = UpdatedBatch(loc[r].snap, loc[r].evt, loc[r].now)
  /\ LET norm == normalizeTitle(loc[r].evt.title)
     IN  sightings' = sightings \cup {[id |-> hashStr(norm), norm |-> norm,
                                       ts |-> loc[r].evt.ts]}
  /\ lastUpdateNow' = loc[r].now
  /\ Step(r, "done", Finished(loc[r]), Stored(TRUE))
  /\ UNCHANGED <<clock, pieces_archive, last_webapp_sync_at,
                 profile_histogram, events,
                 titlesQueue, appendLog, sequential>>

\* The update is rejected (a storage call throws): .catch(() => {}) turns
\* the rejection into a resolved __titlesQueue, so the handler's await
\* returns and it answers {ok, stored: true}; nothing is written.
UpdateFail(r) ==
  /\ pc[r] = "updWrite"
  /\ Step(r, "done", [Finished(loc[r]) EXCEPT !.failed = TRUE], Stored(TRUE))
  /\ UNCHANGED <<clock, storeVars, titlesQueue, titleHistVars, appendLog,
                 sequential>>

\* --------------------------------------------------------- GET_TITLES
ReceiveGetTitles(r) ==
  /\ IsNext(r)
  /\ Issue(r, [NoMsg EXCEPT !.type = "GET_TITLES"], "getTitles", NoLoc, NoResp)
  /\ UNCHANGED <<clock, storeVars, titlesQueue, titleHistVars, appendLog,
                 sequential>>

\* getTitlesBatch: one read of titles_batch, sent back as it is.
GetTitlesRead(r) ==
  /\ pc[r] = "getTitles"
  /\ Step(r, "done", loc[r], Data(titles_batch))
  /\ UNCHANGED <<clock, storeVars, titlesQueue, titleHistVars, appendLog,
                 sequential>>

\* --------------------------------------------------------- ACK_TITLES
\* ackTitles(ids): nothing is read when ids is no list or an empty one.
ReceiveAckTitles(r, ids) ==
  /\ IsNext(r)
  /\ LET m == [NoMsg EXCEPT !.type = "ACK_TITLES", !.ids = ids]
     IN  IF ids = NotAList \/ ids = {}
         THEN Issue(r, m, "done", NoLoc, Ok)
         ELSE Issue(r, m, "ackRead", NoLoc, NoResp)
  /\ UNCHANGED <<clock, storeVars, titlesQueue, titleHistVars, appendLog,
                 sequential>>

\* await getStore(['titles_batch']); an empty batch ends the call.
AckRead(r) ==
  /\ pc[r] = "ackRead"
  /\ IF titles_batch = <<>>
     THEN Step(r, "done", loc[r], Ok)
     ELSE Step(r, "ackWrite", [loc[r] EXCEPT !.snap = titles_batch], NoResp)
  /\ UNCHANGED <<clock, storeVars, titlesQueue, titleHistVars, appendLog,
                 sequential>>

\* setStore({titles_batch: kept}), then sendResponse({ok}).
AckWrite(r) ==
  /\ pc[r] = "ackWrite"
  /\ titles_batch' = KeptAfterAck(loc[r].snap, msg[r].ids)
  /\ Step(r, "done", Finished(loc[r]), Ok)
  /\ UNCHANGED <<clock, pieces_archive, last_webapp_sync_at,
                 profile_histogram, events,
                 titlesQueue, titleHistVars, appendLog, sequential>>

\* ------------------------------------------------------- CLEAR_TITLES
ReceiveClearTitles(r) ==
  /\ IsNext(r)
  /\ Issue(r, [NoMsg EXCEPT !.type = "CLEAR_TITLES"], "clearTitles", NoLoc,
           NoResp)
  /\ UNCHANGED <<clock, storeVars, titlesQueue, titleHistVars, appendLog,
                 sequential>>

\* clearTitlesBatch: setStore({titles_batch: []}), then sendResponse({ok}).
ClearWrite(r) ==
  /\ pc[r] = "clearTitles"
  /\ titles_batch' = <<>>
  /\ Step(r, "done", loc[r], Ok)
  /\ UNCHANGED <<clock, pieces_archive, last_webapp_sync_at,
                 profile_histogram, events,
                 titlesQueue, titleHistVars, appendLog, sequential>>

\* ------------------------------------------------------- APPEND_PIECE
\* Whether a request's appendPiece has begun and has not written yet.
AppendPending(q) == pc[q] \in {"appendRead", "appendWrite"}

\* onMessage: appendPiece(msg.piece) is called and awaits getStore.
ReceiveAppendPiece(r, piece) ==
  /\ IsNext(r)
  /\ Issue(r, [NoMsg EXCEPT !.type = "APPEND_PIECE", !.piece = piece],
           "appendRead", NoLoc, NoResp)
  /\ sequential' = (sequential /\ \A q \in Requests : ~AppendPending(q))
  /\ UNCHANGED <<clock, storeVars, titlesQueue, titleHistVars, appendLog>>

\* getStore resolved: the entry is built (new Date() when the piece has no
\* date), the array cropped, and setStore called with Date.now().
AppendRead(r) ==
  /\ pc[r] = "appendRead"
  /\ Step(r, "appendWrite",
          [loc[r] EXCEPT !.now = clock, !.snap = pieces_archive], NoResp)
  /\ UNCHANGED <<clock, storeVars, titlesQueue, titleHistVars, appendLog,
                 sequential>>

\* setStore({pieces_archive: cropped, last_webapp_sync_at}) takes effect,
\* then sendResponse({ok}).
AppendWrite(r) ==
  /\ pc[r] = "appendWrite"
  /\ pieces_archive' = AppendedArchive(loc[r].snap, msg[r].piece, loc[r].now)
  /\ last_webapp_sync_at' = loc[r].now
  /\ appendLog' = <<ArchiveEntry(msg[r].piece, loc[r].now)>> \o appendLog
  /\ Step(r, "done", Finished(loc[r]), Ok)
  /\ UNCHANGED <<clock, titles_batch, profile_histogram, events, titlesQueue,
                 titleHistVars, sequential>>

\* -------------------------------------------------------- GET_ARCHIVE
ReceiveGetArchive(r) ==
  /\ IsNext(r)
  /\ Issue(r, [NoMsg EXCEPT !.type = "GET_ARCHIVE"], "getArchive", NoLoc,
           NoResp)
  /\ UNCHANGED <<clock, storeVars, titlesQueue, titleHistVars, appendLog,
                 sequential>>

\* A variant that stores the mapped entries.
GetArchiveWriteBack(r) ==
  /\ pc[r] = "getArchive"
  /\ pieces_archive' = MappedArchive(pieces_archive)
  /\ Step(r, "done", loc[r], Data(MappedArchive(pieces_archive)))
  /\ UNCHANGED <<clock, titles_batch, last_webapp_sync_at, profile_histogram,
                 events, titlesQueue, titleHistVars, appendLog, sequential>>

\* getArchive: one read of pieces_archive, mapped and sent back.
GetArchiveRead(r) ==
  /\ pc[r] = "getArchive"
  /\ Step(r, "done", loc[r], Data(MappedArchive(pieces_archive)))
  /\ UNCHANGED <<clock, storeVars, titlesQueue, titleHistVars, appendLog,
                 sequential>>

\* ----------------------------------------- LCL_ADD_EVENT, rejected
\* addEvent rejected (openDB failed or the transaction reported an error):
\* the catch clause answers {ok: false, error}; nothing is enqueued.
AddEventFail(r) ==
  /\ pc[r] = "addEvent"
  /\ Step(r, "done", loc[r], Failed)
  /\ UNCHANGED <<clock, storeVars, titlesQueue, titleHistVars, appendLog,
                 sequential>>

\* ----------------------------------------------------- LCL_GET_RECENT
\* onMessage: getRecent(msg.limit || 200) is awaited; limit 0 is no limit
\* given.
DefaultLimit == 200
ReceiveGetRecent(r, limit) ==
  /\ IsNext(r)
  /\ Issue(r, [NoMsg EXCEPT !.type = "LCL_GET_RECENT", !.limit = limit],
           "getRecent", NoLoc, NoResp)
  /\ UNCHANGED <<clock, storeVars, titlesQueue, titleHistVars, appendLog,
                 sequential>>

\* The cursor reached its end or the limit: sendResponse({ok, data}).
GetRecentDone(r) ==
  /\ pc[r] = "getRecent"
  /\ Step(r, "done", loc[r],
          Data(getRecent(events, OrNum(msg[r].limit, DefaultLimit))))
  /\ UNCHANGED <<clock, storeVars, titlesQueue, titleHistVars, appendLog,
                 sequential>>

\* openDB rejected: the catch clause answers {ok: false, error}.
GetRecentFail(r) ==
  /\ pc[r] = "getRecent"
  /\ Step(r, "done", loc[r], Failed)
  /\ UNCHANGED <<clock, storeVars, titlesQueue, titleHistVars, appendLog,
                 sequential>>

\* The cursor request failed: getRecent's promise has no error handler and
\* never settles, so the handler stays at its await.
GetRecentStall(r) ==
  /\ pc[r] = "getRecent"
  /\ Step(r, "stalled", loc[r], NoResp)
  /\ UNCHANGED <<clock, storeVars, titlesQueue, titleHistVars, appendLog,
                 sequential>>

\* ---------------------------------------------------------- LCL_CLEAR
ReceiveClearLog(r) ==
  /\ IsNext(r)
  /\ Issue(r, [NoMsg EXCEPT !.type = "LCL_CLEAR"], "clearAll", NoLoc, NoResp)
  /\ UNCHANGED <<clock, storeVars, titlesQueue, titleHistVars, appendLog,
                 sequential>>

\* The transaction completed: the log is empty, sendResponse({ok}).
ClearLogDone(r) ==
  /\ pc[r] = "clearAll"
  /\ events' = <<>>
  /\ Step(r, "done", loc[r], Ok)
  /\ UNCHANGED <<clock, titles_batch, pieces_archive, last_webapp_sync_at,
                 profile_histogram, titlesQueue, titleHistVars, appendLog,
                 sequential>>

\* openDB rejected: the catch clause answers {ok: false, error}.
ClearLogFail(r) ==
  /\ pc[r] = "clearAll"
  /\ Step(r, "done", loc[r], Failed)
  /\ UNCHANGED <<clock, storeVars, titlesQueue, titleHistVars, appendLog,
                 sequential>>

\* The transaction failed: clearAll's promise resolves on complete only and
\* never settles, so the handler stays at its await.
ClearLogStall(r) ==
  /\ pc[r] = "clearAll"
  /\ Step(r, "stalled", loc[r], NoResp)
  /\ UNCHANGED <<clock, storeVars, titlesQueue, titleHistVars, appendLog,
                 sequential>>

\* ------------------------------------------------ unsupported actions
\* The message types each listener has a branch for: onMessage (messages
\* from the extension's own scripts, the relay among them) and
\* onMessageExternal (messages sent by a web page directly).
InternalActions ==
  {"LCL_ADD_EVENT", "LCL_GET_RECENT", "LCL_CLEAR", "GET_TITLES", "ACK_TITLES",
   "CLEAR_TITLES", "SET_PROFILE", "GET_PROFILE", "APPEND_PIECE",
   "GET_ARCHIVE", "GET_STATUS", "CLEAR_PROFILE_ARCHIVE"}
ExternalActions ==
  {"GET_TITLES", "ACK_TITLES", "CLEAR_TITLES", "SET_PROFILE", "GET_PROFILE",
   "APPEND_PIECE", "GET_ARCHIVE", "GET_STATUS"}
Handled(via) == IF via = "external" THEN ExternalActions ELSE InternalActions

\* What a listener answers to a type it has no branch for: the final else
\* of onMessageExternal; onMessage has none and calls sendResponse never.
FallThroughAnswered(via) == Unsupported
FallThrough(via) == IF via = "external" THEN Unsupported ELSE NoResp

\* A message of a type the listener has no branch for.
ReceiveUnsupported(r, type, via) ==
  /\ IsNext(r)
  /\ type \notin Handled(via)
  /\ Issue(r, [NoMsg EXCEPT !.type = type, !.via = via], "done", NoLoc,
           FallThrough(via))
  /\ UNCHANGED <<clock, storeVars, titlesQueue, titleHistVars, appendLog,
                 sequential>>

\* ------------------------------------------------------------ relay
NAMESPACE_IN == "thyself-bridge"
NAMESPACE_OUT == "thyself-extension"

\* evt.origin: a serialized origin, or the string "null" of an opaque one.
Origin(scheme, hostname, port) ==
  [scheme |-> scheme, hostname |-> hostname, port |-> port]
OpaqueOrigin == [opaque |-> TRUE]

\* new URL(evt.origin) throws for "null"; url.port is the port written in
\* the origin ('' when it is the scheme's default).
isValidOriginAnyPort(origin) ==
  IF "hostname" \notin DOMAIN origin THEN FALSE
  ELSE origin.hostname \in {"localhost", "127.0.0.1"}
isValidOrigin(origin) ==
  IF "hostname" \notin DOMAIN origin THEN FALSE
  ELSE origin.hostname \in {"localhost", "127.0.0.1"} /\ origin.port = "3000"

\* payload || {}: the object without keys.
EmptyObject == <<>>
NoWinMsg == [state |-> "none", namespace |-> "", origin |-> OpaqueOrigin,
             action |-> "", payload |-> EmptyObject, requestId |-> 0,
             req |-> 0]
\* pmSend's promise (state, result) and the send() that awaits it: where
\* send stands (sent), what it returned (value), whether it called
\* runtimeSend (direct) and the request that made (dreq).
NoCaller == [state |-> "none", result |-> Null, sent |-> "none",
             value |-> Null, direct |-> FALSE, dreq |-> 0]

routerVars == <<clock, storeVars, titlesQueue, msg, pc, loc, resp,
                titleHistVars, appendLog, sequential>>

IsNextCall(c) ==
  winMsgs[c].state = "none"
    /\ (IF c = 1 THEN TRUE ELSE winMsgs[c - 1].state # "none")

\* pmSend up to its setTimeout: the listener is registered and
\* {namespace, action, payload, requestId} is posted to the page's window.
pmSendPayload(c, origin, action, payload) ==
  /\ IsNextCall(c)
  /\ winMsgs' = [winMsgs EXCEPT ![c] =
                   [state |-> "posted", namespace |-> NAMESPACE_IN,
                    origin |-> origin, action |-> action,
                    payload |-> payload, requestId |-> c, req |-> 0]]
  /\ callers' = [callers EXCEPT ![c] =
                   [NoCaller EXCEPT !.state = "pending", !.sent = "relay"]]
  /\ UNCHANGED <<routerVars, feedVars, outbox, orch>>

\* send(type) of the calls without a payload (payload = {}).
pmSend(c, origin, action) == pmSendPayload(c, origin, action, EmptyObject)

\* A message another script or frame posts to the window.
ForeignPost(c, namespace, origin, action) ==
  /\ IsNextCall(c)
  /\ namespace # NAMESPACE_IN
  /\ winMsgs' = [winMsgs EXCEPT ![c] =
                   [state |-> "posted", namespace |-> namespace,
                    origin |-> origin, action |-> action,
                    payload |-> EmptyObject, requestId |-> c, req |-> 0]]
  /\ UNCHANGED <<routerVars, feedVars, outbox, callers, orch>>

\* The relay's listener returns at one of its two checks.
RelayIgnore(c) ==
  /\ winMsgs[c].state = "posted"
  /\ winMsgs[c].namespace # NAMESPACE_IN \/ ~isValidOrigin(winMsgs[c].origin)
  /\ winMsgs' = [winMsgs EXCEPT ![c].state = "ignored"]
  /\ UNCHANGED <<routerVars, feedVars, outbox, callers, orch>>

\* Where the onMessage listener's branch for a type begins (the types the
\* relay is given here), and what it has answered by then.
Begin(type) ==
  CASE type = "GET_TITLES" -> "getTitles"
    [] type = "CLEAR_TITLES" -> "clearTitles"
    [] type = "LCL_GET_RECENT" -> "getRecent"
    [] type = "ACK_TITLES" -> "ackRead"
    [] type = "APPEND_PIECE" -> "appendRead"
    [] type = "SET_PROFILE" -> "setProfile"
    [] type = "GET_PROFILE" -> "getProfile"
    [] type = "GET_ARCHIVE" -> "getArchive"
    [] type = "GET_STATUS" -> "getStatus"
    [] OTHER -> "done"
BeginAnswer(type) ==
  IF type \in InternalActions THEN NoResp ELSE FallThrough("internal")

\* The listener of a transport: where its branch for a type begins and
\* what it has answered by then.
BeginAt(type, via) == IF type \in Handled(via) THEN Begin(type) ELSE "done"
AnswerAt(type, via) == IF type \in Handled(via) THEN NoResp ELSE FallThrough(via)

\* The object {type, ...payload} a transport sends: a key of the payload
\* replaces the key of the same name written before it.
Spread(type, payload, via) ==
  [NoMsg EXCEPT
     !.type = IF "type" \in DOMAIN payload THEN payload.type ELSE type,
     !.ids = IF "ids" \in DOMAIN payload THEN payload.ids ELSE @,
     !.piece = IF "piece" \in DOMAIN payload THEN payload.piece ELSE @,
     !.profile = IF "profile" \in DOMAIN payload THEN payload.profile ELSE @,
     !.via = via]

\* ackTitles returns before its first await when ids is no list or is
\* empty, and the listener answers {ok: true}.
EndsAtOnce(m) ==
  m.type = "ACK_TITLES" /\ m.type \in Handled(m.via)
    /\ (m.ids = NotAList \/ m.ids = {})
\* Where the listener's branch for message m begins, what it has answered
\* by then, and the locals it holds (Date.now() of setProfileHistogram).
BeginMsg(m) == IF EndsAtOnce(m) THEN "done" ELSE BeginAt(m.type, m.via)
AnswerMsg(m) == IF EndsAtOnce(m) THEN Ok ELSE AnswerAt(m.type, m.via)
LocMsg(m) ==
  IF m.type = "SET_PROFILE" /\ m.type \in Handled(m.via)
  THEN [NoLoc EXCEPT !.now = clock] ELSE NoLoc
\* appendPiece begins while another one has not written yet.
SequentialAfter(m) ==
  IF m.type = "APPEND_PIECE" /\ m.type \in Handled(m.via)
  THEN sequential /\ \A q \in Requests : ~AppendPending(q)
  ELSE sequential

\* forward(action, payload): chrome.runtime.sendMessage({type, ...payload})
\* reaches the onMessage listener.
RelayAccept(c, r) ==
  /\ winMsgs[c].state = "posted"
  /\ winMsgs[c].namespace = NAMESPACE_IN
  /\ isValidOrigin(winMsgs[c].origin)
  /\ IsNext(r)
  /\ LET m == Spread(winMsgs[c].action, winMsgs[c].payload, "internal")
     IN  /\ Receive(r, m, BeginMsg(m), LocMsg(m), AnswerMsg(m))
         /\ sequential' = SequentialAfter(m)
  /\ winMsgs' = [winMsgs EXCEPT ![c].state = "forwarded", ![c].req = r]
  /\ UNCHANGED <<clock, storeVars, titlesQueue, titleHistVars, appendLog,
                 outbox, callers, feedVars, orch>>

\* sendResponse ran: the callback resolves forward's promise and the relay
\* posts {namespace, requestId, response}.
RelayReply(c) ==
  /\ winMsgs[c].state = "forwarded"
  /\ resp[winMsgs[c].req].kind # "none"
  /\ outbox' = Append(outbox, [namespace |-> NAMESPACE_OUT,
                               requestId |-> winMsgs[c].requestId,
                               response |-> resp[winMsgs[c].req]])
  /\ winMsgs' = [winMsgs EXCEPT ![c].state = "replied"]
  /\ UNCHANGED <<routerVars, feedVars, callers, orch>>

\* The listener ended without sendResponse: when the browser closes the
\* message port it calls the callback without a response, and the relay
\* posts response: undefined (NoResp stands for it); the browser may as
\* well keep the port open, and then this step is never taken.
RelayPortClosed(c) ==
  /\ winMsgs[c].state = "forwarded"
  /\ pc[winMsgs[c].req] = "done"
  /\ resp[winMsgs[c].req].kind = "none"
  /\ outbox' = Append(outbox, [namespace |-> NAMESPACE_OUT,
                               requestId |-> winMsgs[c].requestId,
                               response |-> NoResp])
  /\ winMsgs' = [winMsgs EXCEPT ![c].state = "replied"]
  /\ UNCHANGED <<routerVars, feedVars, callers, orch>>

\* pmSend's listener: the events it does not return on.
MatchesAny(data, requestId) == data.namespace = NAMESPACE_OUT
Matches(data, requestId) ==
  data.namespace = NAMESPACE_OUT /\ data.requestId = requestId

\* data.response || null
ResponseOrNull(response) == IF response = NoResp THEN Null ELSE response

\* pmSend's listener is registered until the promise resolves: the
\* listener and the timeout callback both remove it.
ListeningOn(c) == callers[c].state \in {"pending", "timeout"}
Listening(c) == callers[c].state = "pending"

\* pmSend's listener resolves the promise with an event's response.
CallerReceive(c, i) ==
  /\ Listening(c)
  /\ i \in 1..Len(outbox)
  /\ Matches(outbox[i], winMsgs[c].requestId)
  /\ callers' = [callers EXCEPT ![c].state = "resolved",
                                ![c].result = ResponseOrNull(outbox[i].response)]
  /\ UNCHANGED <<routerVars, feedVars, winMsgs, outbox, orch>>

\* pmSend's setTimeout callback finds done false: resolve(null).
CallerTimeout(c) ==
  /\ callers[c].state = "pending"
  /\ callers' = [callers EXCEPT ![c].state = "timeout", ![c].result = Null]
  /\ UNCHANGED <<routerVars, feedVars, winMsgs, outbox, orch>>

\* ------------------------------------------------------------- send
\* pmSend's promise has resolved and send's await returns.
Settled(c) ==
  callers[c].sent = "relay" /\ callers[c].state \in {"resolved", "timeout"}

\* if (viaPM) return viaPM
SendReturn(c) ==
  /\ Settled(c)
  /\ callers[c].result # Null
  /\ callers' = [callers EXCEPT ![c].sent = "returned",
                                ![c].value = callers[c].result]
  /\ UNCHANGED <<routerVars, feedVars, winMsgs, outbox, orch>>

\* Whether send goes on to runtimeSend: viaPM is falsy.
FallsBack(viaPM) == viaPM = Null

\* return runtimeSend(type, payload), which returns null at once: no
\* chrome.runtime on the page, no EXTENSION_ID, or sendMessage throws.
SendDirectNull(c) ==
  /\ Settled(c)
  /\ FallsBack(callers[c].result)
  /\ callers' = [callers EXCEPT ![c].sent = "returned", ![c].value = Null,
                                ![c].direct = TRUE]
  /\ UNCHANGED <<routerVars, feedVars, winMsgs, outbox, orch>>

\* runtimeSend: chrome.runtime.sendMessage(EXTENSION_ID, {type, ...payload})
\* reaches the onMessageExternal listener.
SendDirect(c, r) ==
  /\ Settled(c)
  /\ FallsBack(callers[c].result)
  /\ IsNext(r)
  /\ LET m == Spread(winMsgs[c].action, winMsgs[c].payload, "external")
     IN  /\ Receive(r, m, BeginMsg(m), LocMsg(m), AnswerMsg(m))
         /\ sequential' = SequentialAfter(m)
  /\ callers' = [callers EXCEPT ![c].sent = "direct", ![c].direct = TRUE,
                                ![c].dreq = r]
  /\ UNCHANGED <<clock, storeVars, titlesQueue, titleHistVars, appendLog,
                 winMsgs, outbox, feedVars, orch>>

\* runtimeSend's callback: resolve(resp || null).
DirectReply(c) ==
  /\ callers[c].sent = "direct"
  /\ resp[callers[c].dreq].kind # "none"
  /\ callers' = [callers EXCEPT ![c].sent = "returned",
                                ![c].value = resp[callers[c].dreq]]
  /\ UNCHANGED <<routerVars, feedVars, winMsgs, outbox, orch>>

\* -------------------------------------------------------- SET_PROFILE
\* onMessage: setProfileHistogram(msg.profile) reads Date.now() and awaits
\* setStore.
ReceiveSetProfile(r, profile) ==
  /\ IsNext(r)
  /\ Issue(r, [NoMsg EXCEPT !.type = "SET_PROFILE", !.profile = profile],
           "setProfile", [NoLoc EXCEPT !.now = clock], NoResp)
  /\ UNCHANGED <<clock, storeVars, titlesQueue, titleHistVars, appendLog,
                 sequential>>

\* setStore({profile_histogram: payload, last_webapp_sync_at}) takes
\* effect, then sendResponse({ok}).
SetProfileWrite(r) ==
  /\ pc[r] = "setProfile"
  /\ profile_histogram' = ProfilePayload(msg[r].profile, loc[r].now)
  /\ last_webapp_sync_at' = loc[r].now
  /\ Step(r, "done", Finished(loc[r]), Ok)
  /\ UNCHANGED <<clock, titles_batch, pieces_archive, events, titlesQueue,
                 titleHistVars, appendLog, sequential>>

\* -------------------------------------------------------- GET_PROFILE
ReceiveGetProfile(r) ==
  /\ IsNext(r)
  /\ Issue(r, [NoMsg EXCEPT !.type = "GET_PROFILE"], "getProfile", NoLoc,
           NoResp)
  /\ UNCHANGED <<clock, storeVars, titlesQueue, titleHistVars, appendLog,
                 sequential>>

\* getProfileHistogram: one read of profile_histogram (null by default).
GetProfileRead(r) ==
  /\ pc[r] = "getProfile"
  /\ Step(r, "done", loc[r], Data(profile_histogram))
  /\ UNCHANGED <<clock, storeVars, titlesQueue, titleHistVars, appendLog,
                 sequential>>

\* ---------------------------------------------- CLEAR_PROFILE_ARCHIVE
\* onMessage: clearProfileAndArchive reads Date.now() and awaits setStore.
ReceiveClearProfileArchive(r) ==
  /\ IsNext(r)
  /\ Issue(r, [NoMsg EXCEPT !.type = "CLEAR_PROFILE_ARCHIVE"],
           "clearProfileArchive", [NoLoc EXCEPT !.now = clock], NoResp)
  /\ UNCHANGED <<clock, storeVars, titlesQueue, titleHistVars, appendLog,
                 sequential>>

\* setStore({profile_histogram: null, pieces_archive: [],
\* last_webapp_sync_at}) takes effect, then sendResponse({ok}).
ClearProfileArchiveWrite(r) ==
  /\ pc[r] = "clearProfileArchive"
  /\ LET obj == ClearedKeys(loc[r].now)
     IN  /\ titles_batch' = Written(obj, "titles_batch", titles_batch)
         /\ profile_histogram' =
              Written(obj, "profile_histogram", profile_histogram)
         /\ pieces_archive' = Written(obj, "pieces_archive", pieces_archive)
         /\ last_webapp_sync_at' =
              Written(obj, "last_webapp_sync_at", last_webapp_sync_at)
  /\ Step(r, "done", Finished(loc[r]), Ok)
  /\ UNCHANGED <<clock, events, titlesQueue, titleHistVars, appendLog,
                 sequential>>

\* --------------------------------------------------------- GET_STATUS
ReceiveGetStatus(r) ==
  /\ IsNext(r)
  /\ Issue(r, [NoMsg EXCEPT !.type = "GET_STATUS"], "getStatus", NoLoc,
           NoResp)
  /\ UNCHANGED <<clock, storeVars, titlesQueue, titleHistVars, appendLog,
                 sequential>>

\* getStatus: one read of last_webapp_sync_at.
GetStatusRead(r) ==
  /\ pc[r] = "getStatus"
  /\ Step(r, "done", loc[r], Data(StatusOf(last_webapp_sync_at)))
  /\ UNCHANGED <<clock, storeVars, titlesQueue, titleHistVars, appendLog,
                 sequential>>

\* ============================================= content.js: feed observer
\* location.pathname of the feed and of a watch page.
Paths == {"/", "/watch"}

\* The nodes of the page. A node is a feed card (a candidate host node), a
\* shorts anchor, or absent; link: it holds a[href^="/watch"]; v: the id
\* its href gives, NullId when the href has no v parameter; text: the text of
\* its title element ('' until the card is hydrated); length: the text of
\* its time overlay; twice: the anchor is also below a v2 lockup host.
Nodes == {"card", "twin", "list", "short"}
NullId == "null"
NoNode == [kind |-> "none", link |-> FALSE, v |-> NullId, text |-> <<>>,
           length |-> <<>>, twice |-> FALSE]
FeedCard(v, text) == [NoNode EXCEPT !.kind = "feed", !.link = TRUE, !.v = v,
                                    !.text = text]
ShortsAnchor(v, text) == [NoNode EXCEPT !.kind = "short", !.v = v,
                                        !.text = text, !.twice = TRUE]
EmptyDom == [n \in Nodes |-> NoNode]

\* '12 seconds'
TitleOnlyDuration == <<49, 50, 32, 115, 101, 99, 111, 110, 100, 115>>

\* A feed: a card that is not hydrated yet, a second card of the same video
\* whose title is a duration phrase and nothing else, a card whose link
\* names no video, and a short of the same video.
FeedDom ==
  [n \in Nodes |->
     CASE n = "card" -> FeedCard("vid00001", <<>>)
       [] n = "twin" -> FeedCard("vid00001", TitleOnlyDuration)
       [] n = "list" -> FeedCard(NullId, TitleBb)
       [] n = "short" -> ShortsAnchor("vid00001", TitleBb)]

\* The callbacks setTimeout holds.
ScanAllTimer == [fn |-> "scanAll", node |-> "none"]
ScanShortsTimer == [fn |-> "scanShorts", node |-> "none"]
NavigationTimer == [fn |-> "handleNavigation", node |-> "none"]
RetryTimer(n) == [fn |-> "processNode", node |-> n]

\* extractVideoIdFromHref, extractShortId: the id in the href, null when
\* the href has none.
extractVideoIdFromHref(node) == node.v
extractShortId(node) == node.v

\* rawTitle.replace(/\s+/g, ' ').trim() of the trimmed text.
CleanText(text) == Trim(CollapseWhitespace(Trim(text)))

\* extractDesktop, extractMobile: null without an anchor to /watch or
\* without a title text.
extract(node) ==
  IF node.kind # "feed" \/ ~node.link \/ CleanText(node.text) = <<>>
  THEN Null
  ELSE [rawTitle |-> CleanText(node.text), length |-> node.length]

\* 'https://www.youtube.com' + href, for the hrefs of the model's nodes.
WatchHref(v) ==
  CASE v = "vid00001" -> "https://www.youtube.com/watch?v=vid00001"
    [] v = "vid00002" -> "https://www.youtube.com/watch?v=vid00002"
ShortsHref(v) ==
  CASE v = "vid00001" -> "https://www.youtube.com/shorts/vid00001"
    [] v = "vid00002" -> "https://www.youtube.com/shorts/vid00002"

\* The payload of send.
SendPayload(type, videoId, href, title, length, position, page, now) ==
  [ts |-> now, type |-> type, platform |-> "youtube", videoId |-> videoId,
   title |-> title, length |-> length, position |-> position,
   href |-> href, page |-> page]

Emitted(payload) == [payload |-> payload, session |-> session]

\* processNode(node): what it leaves of seen, positionCounter, pendingNodes
\* and sent, and the timer it sets.
RetryAlways(n) == dom[n].link
RetryOnce(n) == dom[n].link /\ n \notin pendingNodes
NeverSeen(key) == FALSE
AlreadySeen(key) == key \in seen
processNode(n, held) ==
  LET extracted == extract(dom[n])
      videoId == extractVideoIdFromHref(dom[n])
      key == <<videoId, currentPath>>
  IN  IF extracted = Null
      THEN /\ IF RetryOnce(n)
              THEN /\ pendingNodes' = pendingNodes \cup {n}
                   /\ timers' = held \cup {RetryTimer(n)}
                   /\ retries' = [retries EXCEPT ![n] = @ + 1]
              ELSE /\ timers' = held
                   /\ UNCHANGED <<pendingNodes, retries>>
           /\ UNCHANGED <<seen, positionCounter, sent>>
      ELSE /\ timers' = held
           /\ UNCHANGED <<pendingNodes, retries>>
           /\ IF videoId = NullId \/ AlreadySeen(key)
              THEN UNCHANGED <<seen, positionCounter, sent>>
              ELSE LET clean == StripDuration(extracted.rawTitle,
                                              extracted.length)
                   IN  /\ seen' = seen \cup {key}
                       /\ positionCounter' = positionCounter + 1
                       /\ sent' = Append(sent, Emitted(
                            SendPayload("feed_video", videoId,
                                        WatchHref(videoId), clean.title,
                                        clean.length, positionCounter + 1,
                                        currentPath, clock)))

\* The callback of the IntersectionObserver for an observed node that
\* intersects.
Intersect(n) ==
  /\ n \in observed
  /\ processNode(n, timers)
  /\ UNCHANGED <<routerVars, relayVars, location, dom, shortsSeen,
                 currentPath, observed, session>>

\* The retry of line 96 fires.
Retry(n) ==
  /\ RetryTimer(n) \in timers
  /\ processNode(n, timers \ {RetryTimer(n)})
  /\ UNCHANGED <<routerVars, relayVars, location, dom, shortsSeen,
                 currentPath, observed, session>>

\* scanAll, from its interval or a timeout: io.observe on every candidate
\* host node.
scanAll ==
  /\ observed' = observed \cup {n \in Nodes : dom[n].kind = "feed"}
  /\ timers' = timers \ {ScanAllTimer}
  /\ UNCHANGED <<routerVars, relayVars, location, dom, seen, shortsSeen,
                 positionCounter, currentPath, pendingNodes, sent, session,
                 retries>>

\* The anchors scanShorts walks: nodesA, then nodesB (the anchors below a
\* v2 lockup host, which nodesA holds as well), then the anchors of the
\* h3 titles.
ShortsOf(d) ==
  IF d["short"].kind # "short" THEN <<>>
  ELSE IF d["short"].twice THEN <<"short", "short", "short">>
  ELSE <<"short">>

\* One anchor of the forEach, on the sets and the counter so far.
ShortsSkip(st, key) == key \in st.seen \/ key \in st.shortsSeen
scanShortsOne(st, n, now) ==
  LET vid == extractShortId(dom[n])
      key == <<vid, currentPath>>
      rawTitle == CleanText(dom[n].text)
  IN  IF vid = NullId \/ ShortsSkip(st, key) \/ rawTitle = <<>> THEN st
      ELSE [seen |-> st.seen \cup {key},
            shortsSeen |-> st.shortsSeen \cup {key},
            positionCounter |-> st.positionCounter + 1,
            sent |-> Append(st.sent, Emitted(
                       SendPayload("shorts_video", vid, ShortsHref(vid),
                                   rawTitle, <<>>, st.positionCounter + 1,
                                   currentPath, now)))]

RECURSIVE scanShortsAll(_, _, _)
scanShortsAll(st, anchors, now) ==
  IF anchors = <<>> THEN st
  ELSE scanShortsAll(scanShortsOne(st, Head(anchors), now), Tail(anchors), now)

\* scanShorts, from its interval or a timeout.
scanShorts ==
  LET st == scanShortsAll([seen |-> seen, shortsSeen |-> shortsSeen,
                           positionCounter |-> positionCounter,
                           sent |-> sent], ShortsOf(dom), clock)
  IN  /\ seen' = st.seen
      /\ shortsSeen' = st.shortsSeen
      /\ positionCounter' = st.positionCounter
      /\ sent' = st.sent
      /\ timers' = timers \ {ScanShortsTimer}
      /\ UNCHANGED <<routerVars, relayVars, location, dom, currentPath,
                     pendingNodes, observed, session, retries>>

\* The MutationObserver's callback for an added node: a host node is
\* observed, and a node with a shorts anchor sets the timeout of line 258.
Mutation(n) ==
  /\ dom[n].kind # "none"
  /\ observed' = IF dom[n].kind = "feed" THEN observed \cup {n} ELSE observed
  /\ timers' = IF dom[n].kind = "short" THEN timers \cup {ScanShortsTimer}
               ELSE timers
  /\ UNCHANGED <<routerVars, relayVars, location, dom, seen, shortsSeen,
                 positionCounter, currentPath, pendingNodes, sent, session,
                 retries>>

\* The page fills in the title of a card.
Hydrate(n) ==
  /\ dom[n].kind = "feed" /\ dom[n].text = <<>>
  /\ dom' = [dom EXCEPT ![n].text = TitleAa]
  /\ UNCHANGED <<routerVars, relayVars, location, seen, shortsSeen,
                 positionCounter, currentPath, pendingNodes, observed, timers,
                 sent, session, retries>>

\* handleNavigation with location.pathname = path: what it leaves of the
\* observer's variables, from the timers held.
handleNavigation(path, held) ==
  IF currentPath # path
  THEN /\ currentPath' = path
       /\ positionCounter' = 0
       /\ seen' = {}
       /\ UNCHANGED shortsSeen
       /\ timers' = held \cup {ScanAllTimer, ScanShortsTimer}
       /\ session' = session + 1
  ELSE /\ timers' = held
       /\ UNCHANGED <<currentPath, positionCounter, seen, shortsSeen, session>>

\* history.pushState or replaceState to a URL of pathname path (the same
\* pathname when only the query changes): the wrapper of line 282 sets the
\* timeout.
PushState(path) ==
  /\ session < MaxSessions
  /\ location' = path
  /\ timers' = timers \cup {NavigationTimer}
  /\ UNCHANGED <<routerVars, relayVars, dom, seen, shortsSeen,
                 positionCounter, currentPath, pendingNodes, observed, sent,
                 session, retries>>

\* popstate: the listener is handleNavigation itself.
PopState(path) ==
  /\ session < MaxSessions
  /\ location' = path
  /\ handleNavigation(path, timers)
  /\ UNCHANGED <<routerVars, relayVars, dom, pendingNodes, observed, sent,
                 retries>>

\* yt-navigate-finish, yt-page-data-fetched: the timeout is set.
LifecycleSignal ==
  /\ timers' = timers \cup {NavigationTimer}
  /\ UNCHANGED <<routerVars, relayVars, location, dom, seen, shortsSeen,
                 positionCounter, currentPath, pendingNodes, observed, sent,
                 session, retries>>

\* The timeout of handleNavigation fires.
NavigationFires ==
  /\ NavigationTimer \in timers
  /\ handleNavigation(location, timers \ {NavigationTimer})
  /\ UNCHANGED <<routerVars, relayVars, location, dom, pendingNodes,
                 observed, sent, retries>>

\* The content script as it is loaded on page d: lines 8-10, 86, 173 and
\* the timeouts of lines 268-269.
InitObserver(d) ==
  /\ location = "/"
  /\ dom = d
  /\ seen = {}
  /\ shortsSeen = {}
  /\ positionCounter = 0
  /\ currentPath = "/"
  /\ pendingNodes = {}
  /\ observed = {}
  /\ timers = {ScanAllTimer, ScanShortsTimer}
  /\ sent = <<>>
  /\ session = 0
  /\ retries = [n \in Nodes |-> 0]

\* ==================================== web/lib/bridge.ts: AnalysisClient
\* A histogram ({label: count}) is the list of its entries in insertion
\* order, and a label is the list of its parts around ' > '.
Entry(k, v) == [k |-> k, v |-> v]
Has(h, k) == \E i \in 1..Len(h) : h[i].k = k
\* h[k] || 0
CountOf(h, k) ==
  IF Has(h, k) THEN h[CHOOSE i \in 1..Len(h) : h[i].k = k].v ELSE 0
\* h[k] = v: a new key goes to the end, an old one keeps its place.
Put(h, k, v) ==
  IF Has(h, k)
  THEN [i \in 1..Len(h) |-> IF h[i].k = k THEN Entry(k, v) ELSE h[i]]
  ELSE Append(h, Entry(k, v))

\* Object.fromEntries(entries), from the object h on.
RECURSIVE fromEntries(_, _)
fromEntries(h, entries) ==
  IF entries = <<>> THEN h
  ELSE fromEntries(Put(h, entries[1].k, entries[1].v), Tail(entries))

\* for (const [k, v] of Object.entries(inc)) out[k] = (out[k] || 0) + (v || 0)
RECURSIVE AddCounts(_, _)
AddCounts(out, inc) ==
  IF inc = <<>> THEN out
  ELSE AddCounts(Put(out, inc[1].k, CountOf(out, inc[1].k) + inc[1].v),
                 Tail(inc))

\* mergeProfiles(base, inc)
mergeProfiles(base, inc) ==
  [t0 |-> AddCounts(base.t0, inc.t0), t1 |-> AddCounts(base.t1, inc.t1)]

\* existing && existing.t0 && existing.t1
HasBoth(existing) ==
  existing # Null /\ "t0" \in DOMAIN existing /\ "t1" \in DOMAIN existing

\* Object.entries(h).sort((a, b) => b[1] - a[1]): a stable sort.
InsertRanked(s, e) ==
  LET n == Cardinality({i \in 1..Len(s) : s[i].v >= e.v})
  IN  SubSeq(s, 1, n) \o <<e>> \o SubSeq(s, n + 1, Len(s))
RECURSIVE Ranked(_)
Ranked(h) ==
  IF h = <<>> THEN <<>>
  ELSE InsertRanked(Ranked(SubSeq(h, 1, Len(h) - 1)), h[Len(h)])

\* k.includes(' > ') ? k.split(' > ')[1] : k
TagOf(k) == IF Len(k) >= 2 THEN k[2] ELSE k[1]
\* The loop of topThreeT1 over the mapped tags, and one that pushes every
\* tag (for the variant below).
RECURSIVE PushAll(_, _)
PushAll(mapped, uniq) ==
  IF mapped = <<>> \/ Len(uniq) >= 3 THEN uniq
  ELSE PushAll(Tail(mapped), Append(uniq, Head(mapped)))
RECURSIVE PushUnique(_, _)
PushUnique(mapped, uniq) ==
  IF mapped = <<>> THEN uniq
  ELSE LET t == Head(mapped)
           u == IF \E i \in 1..Len(uniq) : uniq[i] = t
                THEN uniq ELSE Append(uniq, t)
       IN  IF Len(u) >= 3 THEN u ELSE PushUnique(Tail(mapped), u)
\* A variant that takes the first three tags, distinct or not.
topThreeAny(tagsRanked) ==
  LET tags == [i \in 1..Len(tagsRanked) |-> TagOf(tagsRanked[i].k)]
      mapped == SelectSeq(tags, LAMBDA t : t # "")
  IN  Slice(PushAll(mapped, <<>>), 0, 3)
\* topThreeT1(tagsRanked)
topThreeT1(tagsRanked) ==
  LET tags == [i \in 1..Len(tagsRanked) |-> TagOf(tagsRanked[i].k)]
      mapped == SelectSeq(tags, LAMBDA t : t # "")
  IN  Slice(PushUnique(mapped, <<>>), 0, 3)

\* What POST /analyze answers (the classification service is not part of
\* the program): three tags; three labels of which two have the same
\* child.
AnalysisThree ==
  [t0_ranked |-> <<Entry(<<"Music">>, 2), Entry(<<"News">>, 1)>>,
   t1_ranked |-> <<Entry(<<"Music", "Jazz">>, 1),
                   Entry(<<"Music", "Rock">>, 1),
                   Entry(<<"News", "World">>, 1)>>]
AnalysisTwin ==
  [t0_ranked |-> <<Entry(<<"Music">>, 1), Entry(<<"Film">>, 1)>>,
   t1_ranked |-> <<Entry(<<"Music", "Jazz">>, 1),
                   Entry(<<"Film", "Jazz">>, 1),
                   Entry(<<"News", "World">>, 1)>>]
\* An answer that counts every title once under a label of its own.
LabelOf(id) ==
  CASE id = IdAa -> "aa"
    [] id = IdBb -> "bb"
    [] OTHER -> "other"
AnalysisByTitle(batch) ==
  [t0_ranked |-> [i \in 1..Len(batch) |-> Entry(<<LabelOf(batch[i].id)>>, 1)],
   t1_ranked |-> <<Entry(<<"Music", "Jazz">>, 1)>>]
AnalysisResults(batch) ==
  {AnalysisThree, AnalysisTwin, AnalysisByTitle(batch)}
\* The answers for the batches of one title.
AnalysisAnswers ==
  {AnalysisThree, AnalysisTwin}
    \cup {AnalysisByTitle(<<[id |-> id]>>) : id \in {IdAa, IdBb}}

\* What POST /recommend answers: a piece with a title, one without.
NoRec ==
  [title |-> Undefined, publisher |-> Undefined, source |-> Undefined,
   url |-> Undefined, imageUrl |-> Undefined, image_url |-> Undefined]
RecTitled == [NoRec EXCEPT !.title = "X", !.publisher = "p",
                           !.url = "http://x"]
Recommendations == {RecTitled, NoRec}

\* The piece the effect hands to appendPiece.
PieceOf(piece, now) ==
  [date |-> Today(now), title |-> piece.title,
   source |-> OrStr(piece.publisher, piece.source), url |-> piece.url,
   image_url |-> OrStr(piece.imageUrl, piece.image_url),
   imageUrl |-> Undefined]

\* titlesBatch.map(t => t.id)
IdsOf(batch) == {batch[i].id : i \in 1..Len(batch)}

\* The effect's run: where it stands (pc), its locals, the request it
\* awaits (req) and whether setProfile returned true (stored); history:
\* the number of runs and what this run has issued (log).
NoRun == [pc |-> "idle", run |-> 0, existing |-> Null, titlesBatch |-> <<>>,
          analysis |-> "none", merged |-> Null, stored |-> FALSE,
          tags |-> <<>>, rec |-> NoRec, req |-> 0, log |-> <<>>]
Issued(type, ids) == [type |-> type, ids |-> ids]

\* A step of the effect that sends nothing to the router's writers.
PageOnly == UNCHANGED <<routerVars, feedVars, winMsgs, outbox, callers>>

\* send(type, payload) of a state-changing action: the relay forwards
\* {type, ...payload} and the router receives it as request r.
SendToRouter(r, type, payload) ==
  /\ IsNext(r)
  /\ LET m == Spread(type, payload, "internal")
     IN  /\ Receive(r, m, BeginMsg(m), LocMsg(m), AnswerMsg(m))
         /\ sequential' = SequentialAfter(m)
  /\ UNCHANGED <<clock, storeVars, titlesQueue, titleHistVars, appendLog,
                 winMsgs, outbox, callers, feedVars>>

\* send's promise for request r resolves: with the router's response, or
\* with null when pmSend's timer runs first (EXTENSION_ID is not set, so
\* runtimeSend returns null); the forwarded request goes on either way.
Resolves(r, answered) == answered => resp[r].kind # "none"
ResultOk(r, answered) == answered /\ resp[r].ok

\* The page is mounted and the effect runs up to extensionAvailable().
Mount ==
  /\ orch.pc \in {"idle", "end"}
  /\ orch.run < MaxRuns
  /\ orch' = [NoRun EXCEPT !.pc = "status", !.run = orch.run + 1,
                           !.log = <<Issued("GET_STATUS", {})>>]
  /\ PageOnly

\* extensionAvailable() returns: getProfile() is called, or the effect
\* returns.
StatusReturns(answered) ==
  /\ orch.pc = "status"
  /\ orch' = IF answered
             THEN [orch EXCEPT !.pc = "profile",
                               !.log = Append(@, Issued("GET_PROFILE", {}))]
             ELSE [orch EXCEPT !.pc = "end"]
  /\ PageOnly

\* getProfile() returns resp.data || null, or null: getTitles() is called.
ProfileReturns(answered) ==
  /\ orch.pc = "profile"
  /\ orch' = [orch EXCEPT !.pc = "titles",
                          !.existing = IF answered THEN profile_histogram
                                       ELSE Null,
                          !.log = Append(@, Issued("GET_TITLES", {}))]
  /\ PageOnly

\* getTitles() returns the stored batch, or null: postAnalyze is called for
\* a batch that is not empty, getArchive otherwise.
TitlesReturn(answered) ==
  /\ orch.pc = "titles"
  /\ LET batch == IF answered THEN titles_batch ELSE <<>>
     IN  orch' = IF batch # <<>>
                 THEN [orch EXCEPT !.pc = "analyze", !.titlesBatch = batch,
                                   !.log = Append(@, Issued("analyze", {}))]
                 ELSE [orch EXCEPT !.pc = "archive",
                                   !.log = Append(@, Issued("GET_ARCHIVE", {}))]
  /\ PageOnly

\* postAnalyze resolved: the counts are merged into the stored profile and
\* setProfile(merged) is called.
AnalyzeReturns(r, analyze) ==
  /\ orch.pc = "analyze"
  /\ analyze \in AnalysisResults(orch.titlesBatch)
  /\ LET incoming == [t0 |-> fromEntries(<<>>, analyze.t0_ranked),
                      t1 |-> fromEntries(<<>>, analyze.t1_ranked)]
         merged == IF HasBoth(orch.existing)
                   THEN mergeProfiles(orch.existing, incoming)
                   ELSE incoming
     IN  /\ SendToRouter(r, "SET_PROFILE", [profile |-> merged])
         /\ orch' = [orch EXCEPT
                       !.pc = "setProfile", !.analysis = "ok",
                       !.merged = merged, !.req = r,
                       !.log = Append(@, Issued("SET_PROFILE", {}))]

\* postAnalyze threw: the catch clause sets the error.
AnalyzeFails ==
  /\ orch.pc = "analyze"
  /\ orch' = [orch EXCEPT !.pc = "end", !.analysis = "failed"]
  /\ PageOnly

\* await setProfile(merged) returns (its value is not read):
\* ackTitles(titlesBatch.map(t => t.id)) is called.
SetProfileReturns(r, answered) ==
  /\ orch.pc = "setProfile"
  /\ Resolves(orch.req, answered)
  /\ SendToRouter(r, "ACK_TITLES", [ids |-> IdsOf(orch.titlesBatch)])
  /\ orch' = [orch EXCEPT
                !.pc = "ack", !.stored = ResultOk(orch.req, answered),
                !.req = r,
                !.log = Append(@, Issued("ACK_TITLES",
                                         IdsOf(orch.titlesBatch)))]

\* await ackTitles(...) returns: the tags are taken from the merged counts
\* and postRecommend is called when there are three.
AckReturns(answered) ==
  /\ orch.pc = "ack"
  /\ Resolves(orch.req, answered)
  /\ LET tags == topThreeT1(Ranked(orch.merged.t1))
     IN  orch' = IF Len(tags) = 3
                 THEN [orch EXCEPT !.pc = "recommend", !.tags = tags,
                                   !.log = Append(@, Issued("recommend", {}))]
                 ELSE [orch EXCEPT !.pc = "end", !.tags = tags]
  /\ PageOnly

\* postRecommend resolved with a piece that has a title: appendPiece is
\* called.
RecommendReturns(r, piece) ==
  /\ orch.pc = "recommend"
  /\ OrStr(piece.title, "") # ""
  /\ SendToRouter(r, "APPEND_PIECE", [piece |-> PieceOf(piece, clock)])
  /\ orch' = [orch EXCEPT !.pc = "append", !.rec = piece, !.req = r,
                          !.log = Append(@, Issued("APPEND_PIECE", {}))]

\* postRecommend threw, or answered without a piece or without a title.
RecommendNothing(piece) ==
  /\ orch.pc = "recommend"
  /\ OrStr(piece.title, "") = ""
  /\ orch' = [orch EXCEPT !.pc = "end", !.rec = piece]
  /\ PageOnly

\* await appendPiece(...) returns.
AppendReturns(answered) ==
  /\ orch.pc = "append"
  /\ Resolves(orch.req, answered)
  /\ orch' = [orch EXCEPT !.pc = "end"]
  /\ PageOnly

\* getArchive() returns: the latest piece is shown.
ArchiveReturns ==
  /\ orch.pc = "archive"
  /\ orch' = [orch EXCEPT !.pc = "end"]
  /\ PageOnly

\* ------------------------------------------------------ specifications
InitRequests ==
  /\ titlesQueue = 0
  /\ msg = [r \in Requests |-> NoMsg]
  /\ pc = [r \in Requests |-> "idle"]
  /\ loc = [r \in Requests |-> NoLoc]
  /\ resp = [r \in Requests |-> NoResp]
  /\ winMsgs = [c \in Calls |-> NoWinMsg]
  /\ outbox = <<>>
  /\ callers = [c \in Calls |-> NoCaller]
  /\ orch = NoRun

\* The router and the relay, with no feed page open.
InitHandlers == InitRequests /\ InitObserver(EmptyDom)

\* A fresh install: nothing stored yet.
Init ==
  /\ clock = StartTime
  /\ titles_batch = <<>>
  /\ pieces_archive = <<>>
  /\ last_webapp_sync_at = 0
  /\ profile_histogram = Null
  /\ events = <<>>
  /\ sightings = {}
  /\ lastUpdateNow = 0
  /\ appendLog = <<>>
  /\ sequential = TRUE
  /\ InitHandlers

AddEventSteps ==
  \E r \in Requests :
    \/ \E p \in Payloads : ReceiveAddEvent(r, p)
    \/ AddEventDone(r)
    \/ UpdateRead(r)
    \/ UpdateWrite(r)

GetTitlesSteps ==
  \E r \in Requests : ReceiveGetTitles(r) \/ GetTitlesRead(r)

AckSteps ==
  \E r \in Requests :
    \/ \E ids \in AckArgs : ReceiveAckTitles(r, ids)
    \/ AckRead(r)
    \/ AckWrite(r)

ClearSteps ==
  \E r \in Requests : ReceiveClearTitles(r) \/ ClearWrite(r)

\* Sightings only: events arrive and the titles are read.
NextSightings == Tick \/ AddEventSteps \/ GetTitlesSteps
SpecSightings == Init /\ [][NextSightings]_vars

\* The Title Store under every request that touches it.
NextTitles == Tick \/ AddEventSteps \/ GetTitlesSteps \/ AckSteps \/ ClearSteps
SpecTitles == Init /\ [][NextTitles]_vars

\* A session that starts with an archive already stored.
InitArchive ==
  /\ clock = StartTime
  /\ titles_batch = <<>>
  /\ pieces_archive \in InitialArchives
  /\ last_webapp_sync_at = 0
  /\ profile_histogram = Null
  /\ events = <<>>
  /\ sightings = {}
  /\ lastUpdateNow = 0
  /\ appendLog = pieces_archive
  /\ sequential = TRUE
  /\ InitHandlers

AppendSteps ==
  \E r \in Requests :
    \/ \E piece \in Pieces : ReceiveAppendPiece(r, piece)
    \/ AppendRead(r)
    \/ AppendWrite(r)

GetArchiveSteps ==
  \E r \in Requests : ReceiveGetArchive(r) \/ GetArchiveRead(r)

\* The Archive Store: pieces are appended and the archive is read.
NextArchive == Tick \/ AppendSteps \/ GetArchiveSteps
SpecArchive == InitArchive /\ [][NextArchive]_vars

SetProfileSteps ==
  \E r \in Requests :
    \/ \E profile \in Profiles : ReceiveSetProfile(r, profile)
    \/ SetProfileWrite(r)

GetProfileSteps ==
  \E r \in Requests : ReceiveGetProfile(r) \/ GetProfileRead(r)

ClearProfileArchiveSteps ==
  \E r \in Requests :
    ReceiveClearProfileArchive(r) \/ ClearProfileArchiveWrite(r)

GetStatusSteps ==
  \E r \in Requests : ReceiveGetStatus(r) \/ GetStatusRead(r)

\* The Profile Store and the sync status.
NextProfile ==
  Tick \/ SetProfileSteps \/ GetProfileSteps \/ ClearProfileArchiveSteps
    \/ GetStatusSteps
SpecProfile == Init /\ [][NextProfile]_vars

\* A session that starts with entries stored before both image keys were
\* written.
InitStores ==
  /\ clock = StartTime
  /\ titles_batch = <<>>
  /\ pieces_archive = LegacyArchive
  /\ last_webapp_sync_at = 0
  /\ profile_histogram = Null
  /\ events = <<>>
  /\ sightings = {}
  /\ lastUpdateNow = 0
  /\ appendLog = pieces_archive
  /\ sequential = TRUE
  /\ InitHandlers

AddOneEventSteps ==
  \E r \in Requests :
    \/ ReceiveAddEvent(r, Payload(TitleAa, 0))
    \/ AddEventDone(r)
    \/ UpdateRead(r)
    \/ UpdateWrite(r)

\* The two clearing actions beside the writers of the stores they clear.
NextStores ==
  Tick \/ AddOneEventSteps \/ SetProfileSteps \/ ClearProfileArchiveSteps
    \/ ClearSteps
SpecStores == InitStores /\ [][NextStores]_vars

GetRecentSteps ==
  \E r \in Requests :
    \/ \E limit \in {0, 1} : ReceiveGetRecent(r, limit)
    \/ GetRecentDone(r)
    \/ GetRecentFail(r)
    \/ GetRecentStall(r)

ClearLogSteps ==
  \E r \in Requests :
    \/ ReceiveClearLog(r)
    \/ ClearLogDone(r)
    \/ ClearLogFail(r)
    \/ ClearLogStall(r)

\* The event log and its debug actions, with the failures IndexedDB can
\* report.
AddTwoEventSteps ==
  \E r \in Requests :
    \/ \E p \in {Payload(TitleAa, 0), Payload(Titleaa, EarlyTs)} :
         ReceiveAddEvent(r, p)
    \/ AddEventDone(r)
    \/ AddEventFail(r)
    \/ UpdateRead(r)
    \/ UpdateWrite(r)

NextEventLog == Tick \/ AddTwoEventSteps \/ GetRecentSteps \/ ClearLogSteps
SpecEventLog == Init /\ [][NextEventLog]_vars

\* LCL_ADD_EVENT over the candidates, the event-log write failing or not.
AddCandidateSteps ==
  \E r \in Requests :
    \/ \E p \in Candidates : ReceiveAddEvent(r, p)
    \/ AddEventDone(r)
    \/ AddEventFail(r)
    \/ UpdateRead(r)
    \/ UpdateWrite(r)

NextSanitize == Tick \/ AddCandidateSteps
SpecSanitize == InitStores /\ [][NextSanitize]_vars

\* The origins of the pages and frames that post to the window.
Origins ==
  {Origin("http", "localhost", "3000"), Origin("https", "127.0.0.1", "3000"),
   Origin("http", "localhost", "3001"),
   Origin("https", "evil.example", "3000"), OpaqueOrigin}
\* The actions given to pmSend: two of the vocabulary and one outside it.
RelayedActions == {"GET_TITLES", "CLEAR_TITLES", "PING"}

RelaySteps ==
  \E c \in Calls :
    \/ \E o \in Origins, a \in RelayedActions : pmSend(c, o, a)
    \/ ForeignPost(c, NAMESPACE_OUT, Origin("http", "localhost", "3000"),
                   "CLEAR_TITLES")
    \/ RelayIgnore(c)
    \/ \E r \in Requests : RelayAccept(c, r)
    \/ RelayReply(c)
    \/ RelayPortClosed(c)
    \/ \E i \in 1..MaxCalls : CallerReceive(c, i)
    \/ CallerTimeout(c)

\* A session in which one title was sighted before.
InitRelay ==
  /\ clock = StartTime
  /\ titles_batch = UpdatedBatch(<<>>, sanitizeEvent(Payload(TitleAa, 0),
                                                     StartTime), StartTime)
  /\ pieces_archive = <<>>
  /\ last_webapp_sync_at = 0
  /\ profile_histogram = Null
  /\ events = <<sanitizeEvent(Payload(TitleAa, 0), StartTime)>>
  /\ sightings = {}
  /\ lastUpdateNow = 0
  /\ appendLog = <<>>
  /\ sequential = TRUE
  /\ InitHandlers

\* The web app talking through the relay, and a request of another sender.
NextRelay ==
  \/ RelaySteps
  \/ \E r \in Requests :
       ReceiveGetTitles(r) \/ GetTitlesRead(r) \/ ClearWrite(r)
SpecRelay == InitRelay /\ [][NextRelay]_vars

\* send() over the relay with a fallback to the direct transport: the page
\* is served from an origin the relay accepts or from another one.
SendSteps ==
  \E c \in Calls :
    \/ \E o \in {Origin("http", "localhost", "3000"),
                  Origin("http", "localhost", "3001")},
          a \in {"GET_TITLES", "PING"} : pmSend(c, o, a)
    \/ RelayIgnore(c)
    \/ \E r \in Requests : RelayAccept(c, r)
    \/ RelayReply(c)
    \/ RelayPortClosed(c)
    \/ \E i \in 1..MaxCalls : CallerReceive(c, i)
    \/ CallerTimeout(c)
    \/ SendReturn(c)
    \/ SendDirectNull(c)
    \/ \E r \in Requests : SendDirect(c, r)
    \/ DirectReply(c)

NextSend == SendSteps \/ (\E r \in Requests : GetTitlesRead(r))
\* setTimeout runs its callback: a pending pmSend does not wait for ever.
FairSend == \A c \in Calls : WF_vars(CallerTimeout(c))
SpecSend == InitRelay /\ [][NextSend]_vars /\ FairSend

\* A page the relay accepts asks for the titles and for the event log, over
\* the relay and, when that gives nothing, over the direct transport.
ExportSteps ==
  \E c \in Calls :
    \/ \E a \in {"GET_TITLES", "LCL_GET_RECENT"} :
         pmSend(c, Origin("http", "localhost", "3000"), a)
    \/ \E r \in Requests : RelayAccept(c, r)
    \/ RelayReply(c)
    \/ \E i \in 1..MaxCalls : CallerReceive(c, i)
    \/ CallerTimeout(c)
    \/ SendReturn(c)
    \/ \E r \in Requests : SendDirect(c, r)
    \/ DirectReply(c)

NextExport ==
  ExportSteps \/ (\E r \in Requests : GetTitlesRead(r) \/ GetRecentDone(r))
SpecExport == InitRelay /\ [][NextExport]_vars

\* The queue of Title Store updates, with updates that fail.
NextQueue ==
  \E r \in Requests :
    \/ \E p \in {Payload(TitleAa, 0), Payload(TitleBb, 0)} :
         ReceiveAddEvent(r, p)
    \/ AddEventDone(r)
    \/ UpdateRead(r)
    \/ UpdateWrite(r)
    \/ UpdateFail(r)
\* The storage calls call back and the promise reactions run: an update whose
\* predecessor is settled starts, and an update that has read comes to its
\* end. UpdateFail(r) is enabled exactly when UpdateWrite(r) is, and either
\* one ends the update, so the fairness of the end is stated on UpdateFail.
UpdateSteps ==
  \E r \in Requests : UpdateRead(r) \/ UpdateFail(r)
FairQueue == WF_vars(UpdateSteps)
SpecQueue == Init /\ [][NextQueue]_vars /\ FairQueue

\* Types a sender can name: two of no listener, and those only onMessage
\* has a branch for.
SentTypes == {"PING", "GET_EVERYTHING"} \cup InternalActions

UnsupportedSteps ==
  \E r \in Requests, type \in SentTypes, via \in {"internal", "external"} :
    ReceiveUnsupported(r, type, via)

\* Messages no branch handles, beside writers of the stores.
NextDispatch ==
  Tick \/ UnsupportedSteps \/ AddOneEventSteps \/ SetProfileSteps
SpecDispatch == InitStores /\ [][NextDispatch]_vars


\* A feed page with the content script loaded; the router receives nothing.
InitFeed ==
  /\ clock = StartTime
  /\ titles_batch = <<>>
  /\ pieces_archive = <<>>
  /\ last_webapp_sync_at = 0
  /\ profile_histogram = Null
  /\ events = <<>>
  /\ sightings = {}
  /\ lastUpdateNow = 0
  /\ appendLog = <<>>
  /\ sequential = TRUE
  /\ InitRequests
  /\ InitObserver(FeedDom)

\* The callbacks of the content script and what the page does.
FeedSteps ==
  \/ \E n \in Nodes : Intersect(n) \/ Retry(n) \/ Mutation(n) \/ Hydrate(n)
  \/ scanAll
  \/ scanShorts
  \/ \E path \in Paths : PushState(path) \/ PopState(path)
  \/ LifecycleSignal
  \/ NavigationFires
NextFeed == FeedSteps
SpecFeed == InitFeed /\ [][NextFeed]_vars


\* 'Breaking News Today - 3 minutes, 12 seconds'
TitleBreaking ==
  <<66, 114, 101, 97, 107, 105, 110, 103, 32, 78, 101, 119, 115, 32, 84,
    111, 100, 97, 121, 32, 45, 32, 51, 32, 109, 105, 110, 117, 116, 101, 115,
    44, 32, 49, 50, 32, 115, 101, 99, 111, 110, 100, 115>>

\* Two cards of two videos with that title and no time overlay.
ScenarioDom ==
  [n \in Nodes |->
     CASE n = "card" -> FeedCard("vid00001", TitleBreaking)
       [] n = "twin" -> FeedCard("vid00002", TitleBreaking)
       [] OTHER -> NoNode]

InitScenario ==
  /\ clock = 0
  /\ titles_batch = <<>>
  /\ pieces_archive = <<>>
  /\ last_webapp_sync_at = 0
  /\ profile_histogram = Null
  /\ events = <<>>
  /\ sightings = {}
  /\ lastUpdateNow = 0
  /\ appendLog = <<>>
  /\ sequential = TRUE
  /\ InitRequests
  /\ InitObserver(ScenarioDom)

\* chrome.runtime.sendMessage({type: 'LCL_ADD_EVENT', payload}) of send:
\* the router receives the candidates in the order they were sent.
DeliverCandidate(r) ==
  /\ r <= Len(sent)
  /\ ReceiveAddEvent(r, sent[r].payload)

\* Date.now() goes from 0 to 100.
Elapse ==
  /\ clock = 0
  /\ clock' = 100
  /\ UNCHANGED <<storeVars, titlesQueue, msg, pc, loc, resp, titleHistVars,
                 appendLog, sequential, relayVars, feedVars>>

ScenarioSteps ==
  \/ scanAll
  \/ \E n \in Nodes : Intersect(n)
  \/ Elapse
  \/ \E r \in Requests :
       DeliverCandidate(r) \/ AddEventDone(r) \/ UpdateRead(r) \/ UpdateWrite(r)
NextScenario == ScenarioSteps
SpecScenario == InitScenario /\ [][NextScenario]_vars


\* Titles over an upper-case letter, a lower-case letter, a space and a
\* quote character, up to MaxTitleLen code units.
NormAlphabet == {65, 97, 32, 39}
TitlesUpTo(n) == UNION {[1..k -> NormAlphabet] : k \in 0..n}

\* One sighting of any such title, through the handler and the update.
NextNormalize ==
  \/ \E t \in TitlesUpTo(MaxTitleLen) : ReceiveAddEvent(1, Payload(t, 0))
  \/ AddEventDone(1)
  \/ UpdateRead(1)
  \/ UpdateWrite(1)
SpecNormalize == Init /\ [][NextNormalize]_vars


\* -------------------------------------------------- envelopes
\* Payloads a page script hands to send(): none, and objects with a key.
TypeInPayload == [type |-> "CLEAR_TITLES"]
EnvelopePayloads == {EmptyObject, TypeInPayload}

\* send(action, payload) over the relay and over the direct transport, and
\* the branches of the router the requests reach.
EnvelopeSteps ==
  \E c \in Calls :
    \/ \E a \in {"GET_TITLES", "GET_STATUS"}, p \in EnvelopePayloads :
         pmSendPayload(c, Origin("http", "localhost", "3000"), a, p)
    \/ \E r \in Requests : RelayAccept(c, r)
    \/ RelayReply(c)
    \/ \E i \in 1..MaxCalls : CallerReceive(c, i)
    \/ CallerTimeout(c)
    \/ SendReturn(c)
    \/ \E r \in Requests : SendDirect(c, r)
    \/ DirectReply(c)
NextEnvelope ==
  \/ EnvelopeSteps
  \/ \E r \in Requests : GetTitlesRead(r) \/ GetStatusRead(r) \/ ClearWrite(r)
SpecEnvelope == InitRelay /\ [][NextEnvelope]_vars


\* ------------------------------------------------------ duration words
\* Title texts that end in duration words, and a time overlay text.
\* 'Aa 3 minutes, 12 seconds'
DurMinSec ==
  <<65, 97, 32, 51, 32, 109, 105, 110, 117, 116, 101, 115, 44, 32, 49, 50,
    32, 115, 101, 99, 111, 110, 100, 115>>
\* 'Aa - 1 hour, 2 minutes, 3 seconds'
DurHours ==
  <<65, 97, 32, 45, 32, 49, 32, 104, 111, 117, 114, 44, 32, 50, 32, 109,
    105, 110, 117, 116, 101, 115, 44, 32, 51, 32, 115, 101, 99, 111, 110,
    100, 115>>
\* 'Aa 12 seconds'
DurSeconds ==
  <<65, 97, 32, 49, 50, 32, 115, 101, 99, 111, 110, 100, 115>>
\* 'Aa 0 seconds'
DurZero ==
  <<65, 97, 32, 48, 32, 115, 101, 99, 111, 110, 100, 115>>
\* 'Aa 1 hour, 100 seconds'
DurLong ==
  <<65, 97, 32, 49, 32, 104, 111, 117, 114, 44, 32, 49, 48, 48, 32, 115,
    101, 99, 111, 110, 100, 115>>
\* 'Aa 10 Minutes'
DurUpper ==
  <<65, 97, 32, 49, 48, 32, 77, 105, 110, 117, 116, 101, 115>>
\* '9:59'
Length959 ==
  <<57, 58, 53, 57>>
DurationTitles ==
  {DurMinSec, DurHours, DurSeconds, DurZero, DurLong, DurUpper}

\* Two cards of two videos: the first with or without a time overlay.
DurationDom(text, length, text2) ==
  [n \in Nodes |->
     CASE n = "card" -> [FeedCard("vid00001", text) EXCEPT !.length = length]
       [] n = "twin" -> FeedCard("vid00002", text2)
       [] OTHER -> NoNode]

InitDuration ==
  /\ clock = StartTime
  /\ titles_batch = <<>>
  /\ pieces_archive = <<>>
  /\ last_webapp_sync_at = 0
  /\ profile_histogram = Null
  /\ events = <<>>
  /\ sightings = {}
  /\ lastUpdateNow = 0
  /\ appendLog = <<>>
  /\ sequential = TRUE
  /\ InitRequests
  /\ \E text \in DurationTitles \cup {TitleAa}, length \in {<<>>, Length959},
        text2 \in DurationTitles \cup {TitleAa} :
       InitObserver(DurationDom(text, length, text2))

DurationSteps ==
  \/ scanAll
  \/ \E n \in Nodes : Intersect(n)
NextDuration == DurationSteps
SpecDuration == InitDuration /\ [][NextDuration]_vars


\* ------------------------------------------------------ orchestrator
\* The page's effect, run up to MaxRuns times, and the router's handlers
\* for the requests it sends.
OrchSteps ==
  \/ Mount
  \/ \E answered \in BOOLEAN :
       \/ StatusReturns(answered)
       \/ ProfileReturns(answered)
       \/ TitlesReturn(answered)
       \/ AckReturns(answered)
       \/ AppendReturns(answered)
       \/ \E r \in Requests : SetProfileReturns(r, answered)
  \/ \E r \in Requests, analyze \in AnalysisAnswers : AnalyzeReturns(r, analyze)
  \/ AnalyzeFails
  \/ \E piece \in Recommendations :
       \/ \E r \in Requests : RecommendReturns(r, piece)
       \/ RecommendNothing(piece)
  \/ ArchiveReturns
NextOrch ==
  \/ OrchSteps
  \/ \E r \in Requests :
       \/ SetProfileWrite(r)
       \/ AckRead(r) \/ AckWrite(r)
       \/ AppendRead(r) \/ AppendWrite(r)
SpecOrch == InitRelay /\ [][NextOrch]_vars


\* -------------------------------------------------- writing calls
\* send(type, payload) of the bridge's three state-changing calls.
WritingCalls ==
  {[action |-> "APPEND_PIECE", payload |-> [piece |-> PieceX]],
   [action |-> "SET_PROFILE", payload |-> [profile |-> ProfileFull]],
   [action |-> "ACK_TITLES", payload |-> [ids |-> {IdAa}]]}

\* The page has chrome.runtime and an EXTENSION_ID: send goes over the
\* relay and, when pmSend resolved null, over the direct transport.
ApplySteps ==
  \E c \in Calls :
    \/ \E w \in WritingCalls :
         pmSendPayload(c, Origin("http", "localhost", "3000"), w.action,
                       w.payload)
    \/ \E r \in Requests : RelayAccept(c, r)
    \/ RelayReply(c)
    \/ \E i \in 1..MaxCalls : CallerReceive(c, i)
    \/ CallerTimeout(c)
    \/ SendReturn(c)
    \/ \E r \in Requests : SendDirect(c, r)
    \/ DirectReply(c)
NextApply ==
  \/ ApplySteps
  \/ \E r \in Requests :
       \/ SetProfileWrite(r)
       \/ AckRead(r) \/ AckWrite(r)
       \/ AppendRead(r) \/ AppendWrite(r)
SpecApply == InitRelay /\ [][NextApply]_vars


\* ------------------------------------------------------------- reads
ReadLogSteps ==
  \E r \in Requests :
    \/ \E limit \in {0, 1} : ReceiveGetRecent(r, limit)
    \/ GetRecentDone(r)

\* The five read actions beside a sighting that fills the Title Store and
\* the event log, over an archive stored by an earlier version.
NextReads ==
  Tick \/ AddOneEventSteps \/ GetTitlesSteps \/ GetProfileSteps
    \/ GetArchiveSteps \/ GetStatusSteps \/ ReadLogSteps
SpecReads == InitStores /\ [][NextReads]_vars


\* ============================================================ claims
EntryIds(batch) == {batch[i].id : i \in 1..Len(batch)}
CountId(batch, id) == Cardinality({i \in 1..Len(batch) : batch[i].id = id})
MaxOf(S) == CHOOSE x \in S : \A y \in S : y <= x

\* The request's handler takes its last step.
Completes(r) == pc[r] # "done" /\ pc'[r] = "done"
\* The request's Title Store update ran to its end.
Updated(r) == pc[r] = "done" /\ loc[r].ticket > 0
NormOf(r) == normalizeTitle(loc[r].evt.title)
IdOf(r) == hashStr(NormOf(r))

\* The sightings (updates that ran) of one normalized title.
SightingsOf(norm) == {x \in sightings : x.norm = norm}
\* No sighting of another title has this sighting's id.
NoCollision(s) == \A x \in sightings : x.id = s.id => x.norm = s.norm
\* Every sighting of the title is inside the window of the latest update.
AllInWindow(norm) ==
  \A x \in SightingsOf(norm) : x.ts >= keepAfter(lastUpdateNow)
OneEntryWithMaxTs(s) ==
  /\ CountId(titles_batch, s.id) = 1
  /\ \A i \in 1..Len(titles_batch) :
       titles_batch[i].id = s.id =>
         titles_batch[i].ts = MaxOf({x.ts : x \in SightingsOf(s.norm)})

\* C1 as stated: after any sequence of sightings whose titles normalize to
\* the same string, the Title Store holds exactly one entry for that string
\* and its ts is the maximum timestamp among those sightings.
C1_AsStated == \A s \in sightings : OneEntryWithMaxTs(s)

\* C1, amended: the same, for a non-empty normalized string that shares its
\* id with no other sighted title and whose sightings all have timestamps
\* inside the 14-day window of the latest update.
C1_DedupMaxTs ==
  \A s \in sightings :
    (s.norm # <<>> /\ NoCollision(s) /\ AllInWindow(s.norm))
      => OneEntryWithMaxTs(s)

\* C1 witness: a title sighted with two different timestamps, all inside
\* the window, is held once.
C1_Witness ==
  \E s \in sightings :
    /\ s.norm # <<>> /\ NoCollision(s) /\ AllInWindow(s.norm)
    /\ Cardinality({x.ts : x \in SightingsOf(s.norm)}) >= 2
    /\ CountId(titles_batch, s.id) = 1

\* The second update of a pair completes; the first one ran while the
\* second was already enqueued.
SecondCompletes(i, j) ==
  /\ i # j
  /\ Updated(i)
  /\ pc[j] = "updWrite" /\ pc'[j] = "done"
  /\ i \in loc[j].overlap
  /\ NormOf(i) # <<>> /\ NormOf(j) # <<>>

\* Each of the two titles has an entry of its own.
BothHeld(i, j, batch) ==
  \E a, b \in 1..Len(batch) :
    a # b /\ batch[a].id = IdOf(i) /\ batch[b].id = IdOf(j)

\* C2 as stated: two concurrent updates for two distinct titles leave both
\* titles in the Title Store once both have completed.
C2_AsStated ==
  [][\A i, j \in Requests :
       (SecondCompletes(i, j) /\ NormOf(i) # NormOf(j))
         => BothHeld(i, j, titles_batch')]_vars

\* C2, amended: two concurrent updates for two titles with different ids
\* leave both in the Title Store once both have completed, when the first
\* one's timestamp is inside the 14-day window of the second update.
C2_NoLostUpdate ==
  [][\A i, j \in Requests :
       (/\ SecondCompletes(i, j)
        /\ IdOf(i) # IdOf(j)
        /\ loc[i].evt.ts >= keepAfter(loc[j].now))
         => BothHeld(i, j, titles_batch')]_vars

\* C2 witness: two updates that overlapped have both completed and both
\* titles are held.
C2_Witness ==
  \E i, j \in Requests :
    /\ i # j /\ Updated(i) /\ Updated(j)
    /\ i \in loc[j].overlap
    /\ NormOf(i) # <<>> /\ NormOf(j) # <<>> /\ IdOf(i) # IdOf(j)
    /\ BothHeld(i, j, titles_batch)

\* The update of a request has begun: it read, or it read and wrote.
Started(r) == pc[r] = "updWrite" \/ Updated(r)

\* C3: at most one update is between its storage read and its storage
\* write, and an update begins only when every update enqueued before it
\* has completed.
C3_Serialized ==
  /\ Cardinality({r \in Requests : pc[r] = "updWrite"}) <= 1
  /\ \A i, j \in Requests :
       (loc[i].ticket > 0 /\ loc[i].ticket < loc[j].ticket /\ Started(j))
         => Updated(i)

\* C3 witness: one update is between its read and its write while a later
\* one waits in the queue.
C3_Witness ==
  \E i, j \in Requests :
    /\ pc[i] = "updWrite" /\ pc[j] = "queued"
    /\ loc[i].ticket < loc[j].ticket

\* C4: the stored titles_batch never holds two entries with the same id.
C4_UniqueIds ==
  \A a, b \in 1..Len(titles_batch) :
    a # b => titles_batch[a].id # titles_batch[b].id

\* C4 witness: an id sighted twice is held once after an acknowledgment
\* that read a batch has ended.
C4_Witness ==
  /\ \E s, t \in sightings :
       s.id = t.id /\ s # t /\ CountId(titles_batch, s.id) = 1
  /\ \E r \in Requests :
       msg[r].type = "ACK_TITLES" /\ pc[r] = "done" /\ msg[r].ids = {IdBb, IdNone}

\* C5 as stated: after an update has completed with its now, no stored
\* entry (what GET_TITLES returns) is older than now minus 14 days, whatever
\* timestamp the event carried.
C5_AsStated ==
  \A i \in 1..Len(titles_batch) : titles_batch[i].ts >= keepAfter(lastUpdateNow)

\* An ACK_TITLES request ends: at once (no list, empty list), after its
\* read (empty batch) or after its write.
AckCompletes(r) == msg'[r].type = "ACK_TITLES" /\ Completes(r)

\* C6 as stated: ACK_TITLES removes exactly the entries whose id is listed
\* and leaves every other entry as it was.
C6_AsStated ==
  [][\A r \in Requests :
       AckCompletes(r) => titles_batch' = KeptAfterAck(titles_batch, msg'[r].ids)]_vars

EntryOf(batch, id) == batch[CHOOSE i \in 1..Len(batch) : batch[i].id = id]

\* C7 as stated: an entry leaves the Title Store only when an update prunes
\* it as expired, when an ACK_TITLES lists its id or on CLEAR_TITLES, and an
\* entry enters it only as the entry of the update that writes.
C7_AsStated ==
  [][/\ \A id \in EntryIds(titles_batch) \ EntryIds(titles_batch') :
          \E r \in Requests :
            /\ Completes(r)
            /\ \/ pc[r] = "clearTitles"
               \/ pc[r] = "ackWrite" /\ id \in msg[r].ids
               \/ /\ pc[r] = "updWrite"
                  /\ EntryOf(titles_batch, id).ts < keepAfter(loc[r].now)
     /\ \A id \in EntryIds(titles_batch') \ EntryIds(titles_batch) :
          \E r \in Requests :
            pc[r] = "updWrite" /\ Completes(r) /\ id = IdOf(r)]_vars

\* The first n entries of a list (all of it when it is shorter).
FirstN(list, n) == [i \in 1..(IF Len(list) < n THEN Len(list) ELSE n) |-> list[i]]

\* The request's appendPiece writes; its GET_ARCHIVE is answered.
AppendCompletes(r) == pc[r] = "appendWrite" /\ pc'[r] = "done"
ArchiveReturned(r) == pc[r] = "getArchive" /\ pc'[r] = "done"

\* C8: the archive never holds more than 365 pieces and GET_ARCHIVE never
\* returns more; as long as the appends were sequential, the archive and
\* what GET_ARCHIVE returns are the 365 most recently appended pieces,
\* newest first, so that after N > 365 appends the N - 365 oldest are missing.
C8_ArchiveCap ==
  [][/\ Len(pieces_archive') <= ARCHIVE_MAX
     /\ sequential' => pieces_archive' = FirstN(appendLog', ARCHIVE_MAX)
     /\ \A r \in Requests :
          ArchiveReturned(r) =>
            /\ Len(resp'[r].data) <= ARCHIVE_MAX
            /\ (sequential /\ Len(appendLog) > ARCHIVE_MAX) =>
                 /\ Len(resp'[r].data) = ARCHIVE_MAX
                 /\ \A i \in 1..ARCHIVE_MAX :
                      /\ resp'[r].data[i].title = appendLog[i].title
                      /\ resp'[r].data[i].date = appendLog[i].date]_vars

\* C8 witness: after more than 365 sequential appends GET_ARCHIVE has
\* returned 365 entries, the latest appended piece first.
C8_Witness ==
  /\ sequential
  /\ Len(appendLog) > ARCHIVE_MAX
  /\ \E r \in Requests :
       /\ msg[r].type = "GET_ARCHIVE" /\ pc[r] = "done"
       /\ Len(resp[r].data) = ARCHIVE_MAX
       /\ resp[r].data[1] = appendLog[1]
       /\ resp[r].data[ARCHIVE_MAX] = appendLog[ARCHIVE_MAX]

\* The number a sequence of decimal digits writes.
DigitOf(c) == (CHOOSE k \in 1..10 : HexDigits[k] = c) - 1
RECURSIVE NumberOf(_)
NumberOf(ds) ==
  IF ds = <<>> THEN 0
  ELSE 10 * NumberOf(SubSeq(ds, 1, Len(ds) - 1)) + DigitOf(ds[Len(ds)])
AllDigits(ds) == \A i \in 1..Len(ds) : \E k \in 1..10 : HexDigits[k] = ds[i]

\* d is the UTC date of the instant now, written YYYY/MM/DD.
IsDateOf(d, now) ==
  /\ Len(d) = 10 /\ d[5] = "/" /\ d[8] = "/"
  /\ AllDigits(SubSeq(d, 1, 4) \o SubSeq(d, 6, 7) \o SubSeq(d, 9, 10))
  /\ LET day == CivilFromDays(now \div 86400000)
     IN  /\ NumberOf(SubSeq(d, 1, 4)) = day.year
         /\ NumberOf(SubSeq(d, 6, 7)) = day.month
         /\ NumberOf(SubSeq(d, 9, 10)) = day.day

\* The head entry is the piece, with its own date or the date of now.
HeadIsPiece(archive, piece, now) ==
  /\ archive # <<>>
  /\ archive[1].title = OrStr(piece.title, "")
  /\ archive[1].url = OrStr(piece.url, "")
  /\ IF piece.date # <<>> THEN archive[1].date = piece.date
     ELSE IsDateOf(archive[1].date, now)

\* C9 as stated, for an append during which no other request wrote the
\* archive: after APPEND_PIECE the piece is the head entry, with its own
\* date or today's, and all previously stored entries follow in their
\* previous order.
C9_AsStated ==
  [][\A r \in Requests :
       (AppendCompletes(r) /\ loc[r].snap = pieces_archive) =>
         /\ HeadIsPiece(pieces_archive', msg[r].piece, loc[r].now)
         /\ Tail(pieces_archive') = pieces_archive]_vars

\* C9, amended: after APPEND_PIECE the piece is the head entry, with its own
\* date or the UTC date of the instant appendPiece built the entry, and the
\* entries it read from storage follow in their previous order, all of them
\* below the cap and the 364 newest at the cap.
C9_HeadAndOrder ==
  [][\A r \in Requests :
       AppendCompletes(r) =>
         /\ HeadIsPiece(pieces_archive', msg[r].piece, loc[r].now)
         /\ Tail(pieces_archive') = FirstN(loc[r].snap, ARCHIVE_MAX - 1)]_vars

\* C9 witness: a piece without a date was appended to an archive that was
\* at the cap; it is the head and the oldest entry is gone.
C9_Witness ==
  \E r \in Requests :
    /\ msg[r].type = "APPEND_PIECE" /\ pc[r] = "done"
    /\ msg[r].piece.date = <<>>
    /\ Len(appendLog) > ARCHIVE_MAX
    /\ Len(pieces_archive) = ARCHIVE_MAX
    /\ pieces_archive[1].title = msg[r].piece.title
    /\ pieces_archive[1].date # <<>>
    /\ pieces_archive[ARCHIVE_MAX] # appendLog[Len(appendLog)]

\* A key that holds a non-empty value.
Given(v) == v # Undefined /\ v # ""
\* Both image keys are present and hold the image the entry p was given
\* under either name, or the empty string.
BothImageKeys(e, p) ==
  /\ e.image_url # Undefined
  /\ e.imageUrl = e.image_url
  /\ e.image_url = (IF Given(p.image_url) THEN p.image_url
                    ELSE IF Given(p.imageUrl) THEN p.imageUrl ELSE "")

\* C10 as stated: every entry APPEND_PIECE writes and every entry
\* GET_ARCHIVE returns has both image keys with the same value, the image
\* given under either key or the empty string, and GET_ARCHIVE leaves the
\* stored archive as it is.
C10_AsStated ==
  [][\A r \in Requests :
       /\ AppendCompletes(r) =>
            BothImageKeys(pieces_archive'[1], msg[r].piece)
       /\ ArchiveReturned(r) =>
            /\ pieces_archive' = pieces_archive
            /\ Len(resp'[r].data) = Len(pieces_archive)
            /\ \A i \in 1..Len(pieces_archive) :
                 BothImageKeys(resp'[r].data[i], pieces_archive[i])]_vars

\* The request's SET_PROFILE is written; its GET_PROFILE is answered.
SetProfileCompletes(r) == pc[r] = "setProfile" /\ pc'[r] = "done"
ProfileReturned(r) == pc[r] = "getProfile" /\ pc'[r] = "done"
\* Some SET_PROFILE has been written.
ProfileWasSet == \E q \in Requests : msg[q].type = "SET_PROFILE" /\ pc[q] = "done"

\* C11: when a SET_PROFILE is written the stored histogram has exactly the
\* keys of the given profile plus updated_at, every key but updated_at with
\* the given value (nothing of the previous histogram stays), and updated_at
\* is the instant the handler issued the write; GET_PROFILE returns the
\* stored histogram, which is the one written last, and null as long as no
\* SET_PROFILE has been written.
C11_ReplaceWholesale ==
  [][\A r \in Requests :
       /\ SetProfileCompletes(r) =>
            /\ DOMAIN profile_histogram' = DOMAIN msg[r].profile \cup {"updated_at"}
            /\ \A k \in DOMAIN msg[r].profile \ {"updated_at"} :
                 profile_histogram'[k] = msg[r].profile[k]
            /\ profile_histogram'.updated_at = loc[r].now
            /\ profile_histogram'.updated_at = last_webapp_sync_at'
       /\ ProfileReturned(r) =>
            /\ resp'[r].data = profile_histogram
            /\ ~ProfileWasSet => resp'[r].data = Null]_vars

\* C11 witness: a profile with t0 only was written over one with t0 and t1,
\* and GET_PROFILE returned it: no t1 is left.
C11_Witness ==
  \E q, r, g \in Requests :
    /\ msg[q].type = "SET_PROFILE" /\ msg[q].profile = ProfileFull /\ pc[q] = "done"
    /\ msg[r].type = "SET_PROFILE" /\ msg[r].profile = ProfileT0 /\ pc[r] = "done"
    /\ msg[g].type = "GET_PROFILE" /\ pc[g] = "done"
    /\ resp[g].data = profile_histogram
    /\ DOMAIN profile_histogram = {"t0", "updated_at"}
    /\ profile_histogram.t0 = ProfileT0.t0

\* The request's GET_STATUS is answered.
StatusReturned(r) == pc[r] = "getStatus" /\ pc'[r] = "done"
\* Some SET_PROFILE or APPEND_PIECE has been written.
SyncWasStamped ==
  \E q \in Requests :
    msg[q].type \in {"SET_PROFILE", "APPEND_PIECE"} /\ pc[q] = "done"

\* C12 as stated: the stored last-sync timestamp changes only when a
\* SET_PROFILE or an APPEND_PIECE is written, and GET_STATUS reports null
\* as long as neither has been.
C12_AsStated ==
  [][/\ last_webapp_sync_at' # last_webapp_sync_at =>
          \E r \in Requests : SetProfileCompletes(r) \/ AppendCompletes(r)
     /\ \A r \in Requests :
          (StatusReturned(r) /\ ~SyncWasStamped) =>
            resp'[r].data.last_webapp_sync_at = Null]_vars

\* The request's CLEAR_PROFILE_ARCHIVE, its CLEAR_TITLES is written.
ClearProfileArchiveCompletes(r) ==
  pc[r] = "clearProfileArchive" /\ pc'[r] = "done"
ClearTitlesCompletes(r) == pc[r] = "clearTitles" /\ pc'[r] = "done"

\* C13: when CLEAR_PROFILE_ARCHIVE completes the stored profile is null and
\* the stored archive empty (what GET_PROFILE and GET_ARCHIVE return), and
\* the Title Store and the event log are as they were; when CLEAR_TITLES
\* completes the Title Store is empty and profile and archive are as they
\* were.
C13_ClearFrames ==
  [][\A r \in Requests :
       /\ ClearProfileArchiveCompletes(r) =>
            /\ profile_histogram' = Null
            /\ MappedArchive(pieces_archive') = <<>>
            /\ titles_batch' = titles_batch
            /\ events' = events
       /\ ClearTitlesCompletes(r) =>
            /\ titles_batch' = <<>>
            /\ profile_histogram' = profile_histogram
            /\ pieces_archive' = pieces_archive]_vars

\* C13 witness: CLEAR_PROFILE_ARCHIVE has emptied a set profile and a
\* filled archive and the Title Store and the event log still hold an entry.
C13_Witness ==
  /\ \E r \in Requests : msg[r].type = "CLEAR_PROFILE_ARCHIVE" /\ pc[r] = "done"
  /\ \E q \in Requests : msg[q].type = "SET_PROFILE" /\ pc[q] = "done"
  /\ profile_histogram = Null
  /\ appendLog # <<>> /\ pieces_archive = <<>>
  /\ titles_batch # <<>> /\ events # <<>>

\* The actions of the vocabulary, the debug ones included.
Vocabulary ==
  {"GET_TITLES", "ACK_TITLES", "CLEAR_TITLES", "SET_PROFILE", "GET_PROFILE",
   "APPEND_PIECE", "GET_ARCHIVE", "GET_STATUS", "CLEAR_PROFILE_ARCHIVE",
   "LCL_ADD_EVENT", "LCL_GET_RECENT", "LCL_CLEAR"}
\* The request's handler takes no further step: it returned, or it awaits
\* a promise that never settles.
Ended(r) == pc[r] \in {"done", "stalled"}
Responded(r) == resp[r].kind # "none"

\* C14 as stated: a request of the vocabulary whose handler can go no
\* further has been answered, with {ok: false, error} when the handler
\* failed.
C14_AsStated ==
  \A r \in Requests :
    (msg[r].type \in Vocabulary /\ Ended(r)) => Responded(r)

\* The request is received in this step.
Received(r) == pc[r] = "idle" /\ pc'[r] # "idle"

\* C15: a request whose action is outside the vocabulary changes no store
\* and starts no handler; sent directly by a page it is answered
\* {ok: false, error: 'unsupported'}, on the internal transport it is never
\* answered.
C15_UnknownAction ==
  [][\A r \in Requests :
       /\ (Received(r) /\ msg'[r].type \notin Vocabulary) =>
            /\ UNCHANGED storeVars
            /\ pc'[r] = "done"
            /\ msg'[r].via = "external" => resp'[r] = Unsupported
       /\ (msg'[r].type \notin Vocabulary /\ msg'[r].via = "internal") =>
            resp'[r].kind = "none"]_vars

\* C15 witness: with a title stored and a profile set, one unknown action
\* sent directly was answered 'unsupported' and one sent internally was not
\* answered.
C15_Witness ==
  /\ titles_batch # <<>> \/ profile_histogram # Null
  /\ \E r, q \in Requests :
       /\ msg[r].type = "PING" /\ msg[r].via = "external"
       /\ pc[r] = "done" /\ resp[r] = Unsupported
       /\ msg[q].type = "PING" /\ msg[q].via = "internal"
       /\ pc[q] = "done" /\ resp[q].kind = "none"

\* sanitizeEvent is applied in this step, to the payload of LCL_ADD_EVENT.
Sanitized(r) == Received(r) /\ msg'[r].type = "LCL_ADD_EVENT"

AllWhite(t) == \A i \in 1..Len(t) : t[i] \in WhiteSpace
\* t is s without the white space at its two ends.
IsTrimOf(t, s) ==
  \E i, j \in 1..Len(s) :
    /\ i <= j /\ t = SubSeq(s, i, j)
    /\ s[i] \notin WhiteSpace /\ s[j] \notin WhiteSpace
    /\ \A k \in 1..Len(s) : (k < i \/ k > j) => s[k] \in WhiteSpace
\* The candidates the claim says are rejected.
ToReject(p) ==
  IF p = Null THEN TRUE
  ELSE p.type \notin {"feed_video", "shorts_video"} \/ AllWhite(p.title)
\* The Event the claim describes but for its ts.
EventOf(e, p) ==
  /\ e # Null
  /\ DOMAIN e = {"ts", "type", "title", "videoId", "href", "page", "platform"}
  /\ IsTrimOf(e.title, p.title)
  /\ e.type = p.type /\ e.videoId = p.videoId
  /\ e.href = p.href /\ e.page = p.page
  /\ e.platform = IF p.platform \in {Undefined, ""} THEN "youtube"
                  ELSE p.platform

\* C16 (amended): sanitizeEvent returns null exactly for an absent
\* candidate, a type other than feed_video and shorts_video, or a title
\* that is empty after trimming; otherwise an Event with the trimmed title,
\* the candidate's type, videoId, href and page, platform defaulted to
\* 'youtube', and ts equal to the candidate's timestamp when that is given
\* and not 0, the current time when it is absent or 0.
C16_Sanitize ==
  [][\A r \in Requests : Sanitized(r) =>
       LET p == msg'[r].payload
           e == loc'[r].evt
       IN  IF ToReject(p) THEN e = Null
           ELSE /\ EventOf(e, p)
                /\ e.ts = IF "ts" \in DOMAIN p /\ p.ts # 0 THEN p.ts
                          ELSE clock]_vars

\* C16 as stated: ... and ts equal to the candidate's timestamp when one is
\* given, the current time when it is absent.
C16_AsStated ==
  [][\A r \in Requests : Sanitized(r) =>
       LET p == msg'[r].payload
           e == loc'[r].evt
       IN  IF ToReject(p) THEN e = Null
           ELSE /\ EventOf(e, p)
                /\ e.ts = IF "ts" \in DOMAIN p THEN p.ts ELSE clock]_vars

\* C16 witness: a candidate was rejected, one with white space around its
\* title and a timestamp gave an Event with the trimmed title and that
\* timestamp, and one without timestamp and platform gave an Event stamped
\* with the current time on platform 'youtube'.
C16_Witness ==
  \E r, q, x \in Requests :
    /\ msg[r].type = "LCL_ADD_EVENT" /\ msg[r].payload = Null
    /\ pc[r] = "done" /\ loc[r].evt = Null
    /\ msg[q].type = "LCL_ADD_EVENT" /\ pc[q] = "addEvent"
    /\ msg[q].payload.title = TitlePadded
    /\ loc[q].evt.title = TitleAa /\ loc[q].evt.ts = EarlyTs
    /\ msg[x].type = "LCL_ADD_EVENT" /\ pc[x] = "addEvent"
    /\ "ts" \notin DOMAIN msg[x].payload
    /\ loc[x].evt.ts = clock /\ loc[x].evt.platform = "youtube"

\* The response {ok: true, stored: true} is given in this step.
AnsweredStored(r) == resp[r].kind # "stored" /\ resp'[r].kind = "stored"

\* C17: a payload the sanitizer rejects is answered {ok: true, stored:
\* false} and no store changes (event log, titles, profile, archive, sync
\* status); {ok: true, stored: true} is answered only when the event is in
\* the log and in the step that ends the request's Title Store update.
C17_RejectAndStore ==
  [][\A r \in Requests :
       /\ (Sanitized(r) /\ ToReject(msg'[r].payload)) =>
            /\ resp'[r].ok /\ resp'[r].kind = "not stored"
            /\ pc'[r] = "done"
            /\ UNCHANGED storeVars
       /\ AnsweredStored(r) =>
            /\ resp'[r].ok
            /\ \E i \in 1..Len(events) : events[i] = loc[r].evt
            /\ pc[r] = "updWrite"
            /\ titles_batch' = UpdatedBatch(loc[r].snap, loc[r].evt, loc[r].now)
            /\ lastUpdateNow' = loc[r].now]_vars

\* C17 witness: one payload was rejected and answered stored: false, another
\* was answered stored: true with its event in the log and its title in the
\* Title Store.
C17_Witness ==
  \E r, q \in Requests :
    /\ msg[r].type = "LCL_ADD_EVENT" /\ ToReject(msg[r].payload)
    /\ pc[r] = "done" /\ resp[r].kind = "not stored"
    /\ msg[q].type = "LCL_ADD_EVENT" /\ resp[q].kind = "stored"
    /\ \E i \in 1..Len(events) : events[i].title = Trim(msg[q].payload.title)
    /\ \E i \in 1..Len(titles_batch) :
         titles_batch[i].title = Trim(msg[q].payload.title)

Allowed(w) ==
  IF w.namespace # "thyself-bridge" THEN FALSE
  ELSE IF "hostname" \notin DOMAIN w.origin THEN FALSE
  ELSE w.origin.hostname \in {"localhost", "127.0.0.1"}
         /\ w.origin.port = "3000"

\* The relay's listener has dealt with the message in this step.
Listened(c) == winMsgs[c].state = "posted" /\ winMsgs'[c].state # "posted"

\* C19: a window message reaches the Message Router only if its namespace
\* is 'thyself-bridge' and its origin has host localhost or 127.0.0.1 and
\* port 3000; for any other message the router gets nothing, no store
\* changes and no event is posted back, then or later.
C19_OriginCheck ==
  [][\A c \in Calls :
       /\ winMsgs'[c].req # 0 =>
            /\ Allowed(winMsgs'[c])
            /\ msg'[winMsgs'[c].req].type = winMsgs'[c].action
       /\ (Listened(c) /\ ~Allowed(winMsgs[c])) =>
            /\ winMsgs'[c].state = "ignored"
            /\ UNCHANGED <<msg, pc, resp, storeVars, outbox>>
       /\ winMsgs'[c].state = "ignored" =>
            /\ winMsgs'[c].req = 0
            /\ \A i \in 1..Len(outbox') :
                 outbox'[i].requestId # winMsgs'[c].requestId]_vars

\* C19 witness: CLEAR_TITLES posted from localhost:3001 was ignored and the
\* title is still stored, while a message from https://127.0.0.1:3000
\* reached the router and was answered.
C19_Witness ==
  \E c, d \in Calls :
    /\ winMsgs[c].state = "ignored"
    /\ winMsgs[c].namespace = NAMESPACE_IN
    /\ winMsgs[c].origin = Origin("http", "localhost", "3001")
    /\ winMsgs[c].action = "CLEAR_TITLES"
    /\ titles_batch # <<>>
    /\ winMsgs[d].state = "replied"
    /\ winMsgs[d].origin = Origin("https", "127.0.0.1", "3000")
    /\ resp[winMsgs[d].req].kind = "data"

\* The outbound events that carry the requestId of call c.
EventsFor(c) ==
  {i \in 1..Len(outbox) : outbox[i].requestId = winMsgs[c].requestId}
Accepted(c) == winMsgs[c].state \in {"forwarded", "replied"}

\* C20 (amended): for every accepted relay request the relay posts at most
\* one outbound event, none before the router's callback ran and exactly
\* one after; it carries the request's own requestId and the router's
\* response to that request when the router gave one, and no response when
\* it gave none. A pending call is resolved only by an event whose
\* requestId equals its own, or with null by its timeout, so a call that
\* gets a response gets the response to its own request.
C20_Correlated ==
  \A c \in Calls :
    /\ Cardinality(EventsFor(c)) <= 1
    /\ EventsFor(c) # {} <=> winMsgs[c].state = "replied"
    /\ \A i \in EventsFor(c) :
         /\ outbox[i].namespace = "thyself-extension"
         /\ outbox[i].response = resp[winMsgs[c].req]
    /\ callers[c].state = "resolved" =>
         \E i \in EventsFor(c) :
           callers[c].result =
             IF outbox[i].response.kind = "none" THEN Null
             ELSE outbox[i].response
    /\ callers[c].state = "timeout" => callers[c].result = Null
    /\ callers[c].result # Null =>
         /\ resp[winMsgs[c].req].kind # "none"
         /\ callers[c].result = resp[winMsgs[c].req]

\* C20 as stated: every accepted relay request gets exactly one outbound
\* event that carries its requestId and the router's response to it (so the
\* router has given one when the handler has ended), and a call is resolved
\* only by an event with its own requestId.
C20_AsStated ==
  \A c \in Calls :
    /\ Cardinality(EventsFor(c)) <= 1
    /\ EventsFor(c) # {} <=> winMsgs[c].state = "replied"
    /\ Accepted(c) =>
         /\ pc[winMsgs[c].req] = "done" => resp[winMsgs[c].req].kind # "none"
         /\ \A i \in EventsFor(c) :
              /\ outbox[i].response = resp[winMsgs[c].req]
              /\ outbox[i].response.kind # "none"
    /\ callers[c].state = "resolved" =>
         \E i \in EventsFor(c) : callers[c].result = outbox[i].response

\* C20 witness: two calls were in flight together, the second was answered
\* first, and each was resolved with the response to its own request: one
\* with the titles, the other with {ok: true}.
C20_Witness ==
  /\ Len(outbox) = 2 /\ outbox[1].requestId = 2 /\ outbox[2].requestId = 1
  /\ winMsgs[1].req < winMsgs[2].req
  /\ callers[1].state = "resolved" /\ callers[2].state = "resolved"
  /\ callers[1].result = resp[winMsgs[1].req]
  /\ callers[2].result = resp[winMsgs[2].req]
  /\ callers[1].result.kind = "data" /\ callers[2].result.kind = "ok"

PmSettled(c) == callers[c].state \in {"resolved", "timeout"}

\* C21: a pending relay request always resolves: with the response of an
\* event that carries its requestId when that comes before the timeout,
\* with null at the timeout, and once resolved its result never changes,
\* whatever arrives later. send() calls the direct transport exactly when
\* the relay attempt resolved to null and returns the relay's response
\* unchanged otherwise.
C21_Resolves ==
  /\ \A c \in Calls : (callers[c].state = "pending") ~> PmSettled(c)
  /\ [][\A c \in Calls :
          /\ (callers[c].state = "pending" /\ callers'[c].state = "resolved") =>
               \E i \in 1..Len(outbox) :
                 /\ outbox[i].requestId = winMsgs[c].requestId
                 /\ callers'[c].result =
                      IF outbox[i].response.kind = "none" THEN Null
                      ELSE outbox[i].response
          /\ callers'[c].state = "timeout" => callers'[c].result = Null
          /\ PmSettled(c) =>
               /\ callers'[c].state = callers[c].state
               /\ callers'[c].result = callers[c].result
          /\ (callers[c].sent = "relay" /\ callers'[c].sent # "relay") =>
               /\ PmSettled(c)
               /\ callers'[c].direct <=> callers[c].result = Null
               /\ callers[c].result # Null =>
                    /\ callers'[c].sent = "returned"
                    /\ callers'[c].value = callers[c].result
          /\ callers[c].sent # "relay" =>
               callers'[c].direct = callers[c].direct]_vars

\* C21 witness: one call timed out, the event answering it was posted
\* afterwards and its result is still null, so send went on to the direct
\* transport; the other call got its response in time and send returned it
\* without trying the direct transport.
C21_Witness ==
  \E c, d \in Calls :
    /\ callers[c].state = "timeout" /\ callers[c].result = Null
    /\ \E i \in EventsFor(c) : outbox[i].response.kind = "data"
    /\ callers[c].direct /\ callers[c].sent = "direct"
    /\ callers[d].state = "resolved" /\ callers[d].result # Null
    /\ callers[d].result.kind = "data"
    /\ callers[d].sent = "returned" /\ ~callers[d].direct
    /\ callers[d].value = callers[d].result

\* A response whose data holds an entry with an event's href, item id or
\* page.
CarriesEventFields(response) ==
  IF response = Null THEN FALSE
  ELSE IF response.kind # "data" THEN FALSE
  ELSE \E i \in 1..Len(response.data) :
         {"href", "videoId", "page"} \cap DOMAIN response.data[i] # {}

\* C22 as stated: no message posted back by the relay and no value send()
\* returns to the page, over the relay or over the direct transport,
\* carries an event's href, item id or page.
C22_AsStated ==
  /\ \A i \in 1..Len(outbox) : ~CarriesEventFields(outbox[i].response)
  /\ \A c \in Calls : ~CarriesEventFields(callers[c].value)

\* The update that writes in this step prunes the stored entry of id as
\* expired (and may create a new entry with that id).
PrunedNow(id) ==
  \E r \in Requests :
    /\ pc[r] = "updWrite" /\ Completes(r)
    /\ EntryOf(titles_batch, id).ts < keepAfter(loc[r].now)

\* C30 as stated: from its creation until its removal an entry's id, title
\* and platform stay as they are and its ts never decreases.
C30_AsStated ==
  [][\A id \in EntryIds(titles_batch) \cap EntryIds(titles_batch') :
       ~PrunedNow(id) =>
         /\ EntryOf(titles_batch', id).title = EntryOf(titles_batch, id).title
         /\ EntryOf(titles_batch', id).platform =
              EntryOf(titles_batch, id).platform
         /\ EntryOf(titles_batch', id).ts >= EntryOf(titles_batch, id).ts]_vars

\* The update of request r ran to its end: it wrote, or it failed.
RanToEnd(r) ==
  /\ pc[r] = "done"
  /\ loc[r].failed \/ \E s \in sightings : s.norm = NormOf(r)

\* C29: every enqueued Title Store update eventually runs to its end, also
\* when an update enqueued before it failed.
C29_QueueProgress ==
  \A r \in Requests : (pc[r] = "queued") ~> RanToEnd(r)

\* C29 witness: the first update failed and the update chained on it ran
\* and wrote its title.
C29_Witness ==
  \E r, q \in Requests :
    /\ loc[q].pred = r
    /\ pc[r] = "done" /\ loc[r].failed
    /\ pc[q] = "done" /\ ~loc[q].failed
    /\ \E i \in 1..Len(titles_batch) : titles_batch[i].id = IdOf(q)


\* The (item id, page) pair of a candidate the observer emitted.
PairOf(e) == <<e.payload.videoId, e.payload.page>>

\* C23: within one navigation session (between two resets of seen) the
\* observer never emits two candidates with the same (item id, page) pair,
\* whichever of processNode and scanShorts emits them.
C23_NoDuplicate ==
  \A i, j \in 1..Len(sent) :
    (i # j /\ sent[i].session = sent[j].session) => PairOf(sent[i]) # PairOf(sent[j])
C23_Witness ==
  \E i, j \in 1..Len(sent) :
    /\ sent[i].payload.type = "feed_video"
    /\ sent[j].payload.type = "shorts_video"
    /\ PairOf(sent[i]) = PairOf(sent[j])
    /\ sent[j].session = session
    /\ {"card", "twin"} \subseteq observed
    /\ dom["card"].text # <<>>
    /\ timers = {}

\* handleNavigation ran: from its timeout or as the popstate listener.
NavigationDetected ==
  NavigationFires \/ \E path \in Paths : PopState(path)

\* C24: after every detected navigation the seen set is empty, the position
\* counter is 0 and the sweeps are scheduled again.
C24_AsStated ==
  [][NavigationDetected =>
       /\ seen' = {}
       /\ positionCounter' = 0
       /\ {ScanAllTimer, ScanShortsTimer} \subseteq timers']_vars

\* C25: the shorts seen set is reset on navigation as seen is, so that
\* scanShorts emits a short again once a new session has begun: whenever
\* the short is on the page and was not emitted in this session.
C25_AsStated ==
  [][/\ (NavigationDetected /\ currentPath' # currentPath) => shortsSeen' = {}
     /\ (scanShorts /\ <<dom["short"].v, currentPath>> \notin seen)
          => Len(sent') = Len(sent) + 1]_vars

\* C26: every candidate the observer emits has a non-empty title and a
\* resolved item id, whatever text the node held.
C26_AsStated ==
  \A i \in 1..Len(sent) :
    sent[i].payload.title # <<>> /\ sent[i].payload.videoId # NullId

\* C27: for every node at most one delayed retry is ever scheduled, also
\* when the retry fails and the node is processed again later.
C27_OneRetry ==
  \A n \in Nodes : retries[n] <= 1
C27_Witness ==
  /\ retries["card"] = 1
  /\ RetryTimer("card") \notin timers
  /\ extract(dom["card"]) = Null
  /\ "card" \in observed
  /\ session > 0

\* 'Breaking News Today' and '3:12'
TitleBreakingClean ==
  <<66, 114, 101, 97, 107, 105, 110, 103, 32, 78, 101, 119, 115, 32, 84,
    111, 100, 97, 121>>
Length312 == <<51, 58, 49, 50>>

\* The title was sighted at 0 and again at 100, and both updates ran.
SightedTwice ==
  /\ Len(sent) = 2
  /\ sent[1].payload.ts = 0 /\ sent[2].payload.ts = 100
  /\ pc[1] = "done" /\ pc[2] = "done"

\* C28: 'Breaking News Today - 3 minutes, 12 seconds' without a length is
\* emitted with title 'Breaking News Today' and length '3:12', and sighted
\* at 0 and at 100 it leaves one Title Store entry with that title and
\* ts 100.
C28_Scenario ==
  /\ \A i \in 1..Len(sent) :
       /\ sent[i].payload.title = TitleBreakingClean
       /\ sent[i].payload.length = Length312
  /\ SightedTwice =>
       /\ Len(titles_batch) = 1
       /\ titles_batch[1].title = TitleBreakingClean
       /\ titles_batch[1].ts = 100
C28_Witness ==
  /\ SightedTwice
  /\ Len(titles_batch) = 1
  /\ titles_batch[1].ts = 100
  /\ sent[2].payload.length = Length312
  /\ Len(events) = 2

QuoteChars == {34, 39, 96}

\* s is lowercase, without quote characters, trimmed, and its white space
\* is single spaces.
IsNormalShape(s) ==
  /\ ToLowerCase(s) = s
  /\ \A i \in 1..Len(s) : s[i] \notin QuoteChars
  /\ Trim(s) = s
  /\ \A i \in 1..Len(s) : s[i] \in WhiteSpace => s[i] = 32
  /\ \A i \in 1..(Len(s) - 1) : ~(s[i] = 32 /\ s[i + 1] = 32)

\* Titles that differ from t only in case, in a white-space run or in a
\* quote character: t in upper case, t with one space doubled, t with a
\* quote character put in.
InsertAt(t, k, c) == SubSeq(t, 1, k) \o <<c>> \o SubSeq(t, k + 1, Len(t))
UpperCased(t) == [i \in 1..Len(t) |-> IF t[i] \in 97..122 THEN t[i] - 32 ELSE t[i]]
SameButFor(t) ==
  {UpperCased(t)}
    \cup {InsertAt(t, k, 32) : k \in {i \in 1..Len(t) : t[i] = 32}}
    \cup {InsertAt(t, k, 39) : k \in 0..Len(t)}

\* C31: the normalized title of every sighting is lowercase, free of quote
\* characters, trimmed and has single spaces only; normalizing it again
\* changes nothing; and a title that differs from the sighted one only in
\* case, white-space runs or quote characters gets the same id.
C31_AsStated ==
  \A r \in Requests :
    (pc[r] = "done" /\ msg[r].type = "LCL_ADD_EVENT" /\ loc[r].evt # Null) =>
      LET norm == NormOf(r)
      IN  /\ IsNormalShape(norm)
          /\ normalizeTitle(norm) = norm
          /\ \A t \in SameButFor(loc[r].evt.title) :
               hashStr(normalizeTitle(t)) = hashStr(norm)

\* ------------------------------------------------------------------ C32
\* The requests the router received for call c of send(): the one the
\* relay forwarded and the one of the direct transport.
RequestsOf(c) ==
  (IF winMsgs[c].req # 0 THEN {winMsgs[c].req} ELSE {})
    \cup (IF callers[c].dreq # 0 THEN {callers[c].dreq} ELSE {})

\* C32 (as stated): the action the router dispatches for a relayed or
\* directly sent request is the action named in the request's envelope,
\* whatever keys the payload has.
C32_AsStated ==
  \A c \in Calls : \A r \in RequestsOf(c) : msg[r].type = winMsgs[c].action

\* ------------------------------------------------------------------ C33
\* '1:02:03'
Length10203 ==
  <<49, 58, 48, 50, 58, 48, 51>>
\* '0:12'
Length012 ==
  <<48, 58, 49, 50>>
\* '1:00:100'
Length100100 ==
  <<49, 58, 48, 48, 58, 49, 48, 48>>
\* '10:00'
Length1000 ==
  <<49, 48, 58, 48, 48>>

\* The card a candidate was emitted for.
NodeOf(videoId) ==
  CHOOSE n \in Nodes : dom[n].kind = "feed" /\ dom[n].v = videoId

\* The length the duration words of a title text stand for: '' for a
\* phrase of zeros only.
LengthOfWords(text) ==
  CASE text = DurMinSec -> Length312
    [] text = DurHours -> Length10203
    [] text = DurSeconds -> Length012
    [] text = DurZero -> <<>>
    [] text = DurLong -> Length100100
    [] text = DurUpper -> Length1000

\* H:MM:SS with hours that are not zero, or M:SS.
IsTwoDigits(s, i) == i + 1 <= Len(s) /\ IsDigit(s[i]) /\ IsDigit(s[i + 1])
IsClockText(s) ==
  LET d == SkipDigits(s, 1)
  IN  /\ d > 1 /\ d <= Len(s) /\ s[d] = 58
      /\ IsTwoDigits(s, d + 1)
      /\ \/ Len(s) = d + 2
         \/ /\ Len(s) = d + 5 /\ s[d + 3] = 58 /\ IsTwoDigits(s, d + 4)
            /\ parseInt(SubSeq(s, 1, d - 1)) # 0

\* C33 (as stated): of a title that ends in duration words the words and
\* their separator are removed, an extracted length is kept, and without
\* one the length is set to H:MM:SS or M:SS.
C33_AsStated ==
  \A i \in 1..Len(sent) :
    LET node == dom[NodeOf(sent[i].payload.videoId)]
    IN  node.text \in DurationTitles =>
          /\ sent[i].payload.title = TitleAa
          /\ IF node.length # <<>>
             THEN sent[i].payload.length = node.length
             ELSE IsClockText(sent[i].payload.length)

\* C33 (amended): the words and their separator are removed; an extracted
\* length is kept; without one the length is set from the words when one
\* of their numbers is not zero (h:mm:ss when the hours are not zero, m:ss
\* otherwise, minutes and seconds padded to two digits and longer when
\* the number has more), and stays empty when all of them are zero. A
\* title without duration words and its length are emitted as they are.
C33_Duration ==
  \A i \in 1..Len(sent) :
    LET node == dom[NodeOf(sent[i].payload.videoId)]
    IN  /\ sent[i].payload.title = TitleAa
        /\ sent[i].payload.length =
             IF node.length # <<>> \/ node.text = TitleAa THEN node.length
             ELSE LengthOfWords(node.text)
        /\ node.text \in DurationTitles \ {DurZero, DurLong}
             /\ node.length = <<>> => IsClockText(sent[i].payload.length)
C33_Witness ==
  /\ Len(sent) = 2
  /\ dom["card"].text = DurHours /\ dom["card"].length = Length959
  /\ dom["twin"].text = DurHours
  /\ sent[1].payload.videoId = "vid00001"
  /\ sent[1].payload.length = Length959
  /\ sent[2].payload.length = Length10203
  /\ sent[2].payload.title = TitleAa

\* ------------------------------------------------------------------ C34
\* The requests of a run the claim orders, and what the run has issued of
\* them.
RunOrder ==
  <<"GET_TITLES", "analyze", "SET_PROFILE", "ACK_TITLES", "recommend",
    "APPEND_PIECE">>
OfRunOrder ==
  SelectSeq(orch.log, LAMBDA e : \E k \in 1..Len(RunOrder) : RunOrder[k] = e.type)
IssuedTypes == {orch.log[i].type : i \in 1..Len(orch.log)}
WritingTypes == {"SET_PROFILE", "ACK_TITLES", "APPEND_PIECE"}
\* The tags of a histogram's labels.
DistinctTags(h) == {TagOf(h[i].k) : i \in 1..Len(h)} \ {""}

\* C34: a run issues GET_TITLES, analyze, SET_PROFILE, ACK_TITLES,
\* recommend, APPEND_PIECE in this order; SET_PROFILE, ACK_TITLES and
\* APPEND_PIECE only when GET_TITLES returned a batch that is not empty and
\* the analysis succeeded, and none of them when it failed; ACK_TITLES
\* with the ids of the fetched batch; APPEND_PIECE only when there are
\* three distinct tags and the recommendation has a title.
C34_RunOrder ==
  /\ Len(OfRunOrder) <= Len(RunOrder)
  /\ \A i \in 1..Len(OfRunOrder) : OfRunOrder[i].type = RunOrder[i]
  /\ IssuedTypes \cap WritingTypes # {} =>
       orch.titlesBatch # <<>> /\ orch.analysis = "ok"
  /\ orch.analysis = "failed" => IssuedTypes \cap WritingTypes = {}
  /\ \A i \in 1..Len(orch.log) :
       orch.log[i].type = "ACK_TITLES" =>
         /\ orch.log[i].ids = {orch.titlesBatch[j].id :
                                 j \in 1..Len(orch.titlesBatch)}
         /\ orch.pc = "ack" => msg[orch.req].ids = orch.log[i].ids
  /\ "APPEND_PIECE" \in IssuedTypes =>
       /\ Cardinality(DistinctTags(orch.merged.t1)) >= 3
       /\ orch.rec.title \notin {Undefined, ""}
C34_Witness ==
  /\ orch.pc = "end"
  /\ Len(OfRunOrder) = Len(RunOrder)
  /\ \E r \in Requests : msg[r].type = "APPEND_PIECE" /\ pc[r] = "done"
  /\ Len(pieces_archive) = 1
  /\ titles_batch = <<>>

\* ------------------------------------------------------------------ C35
\* C35 (as stated): a run issues ACK_TITLES only after setProfile has
\* returned true; when SET_PROFILE failed or got no response the titles are
\* not acknowledged.
C35_AsStated ==
  "ACK_TITLES" \in IssuedTypes => orch.stored

\* ------------------------------------------------------------------ C36
\* The count the stored profile has under the label of one title.
StoredCount(label) ==
  IF HasBoth(profile_histogram)
  THEN CountOf(profile_histogram.t0, <<label>>) ELSE 0

\* C36 (as stated): over the runs the counts of a fetched title are added
\* to the stored profile at most once (no title is sighted again here; the
\* analysis counts title 'Aa' once under the label 'aa').
C36_AsStated == StoredCount("aa") <= 1

\* ------------------------------------------------------------------ C37
\* The router has carried out request r.
CarriedOut(r) == pc[r] = "done" /\ resp[r] = Ok

\* C37 (as stated): of the requests one call of send() for APPEND_PIECE,
\* SET_PROFILE or ACK_TITLES has made, the router carries out at most one,
\* also when pmSend timed out and the direct transport was used.
C37_AsStated ==
  \A c \in Calls :
    Cardinality({r \in RequestsOf(c) : CarriedOut(r)}) <= 1

\* ------------------------------------------------------------------ C38
\* No APPEND_PIECE is under way.
AppendsCompleted == \A r \in Requests : ~AppendPending(r)

\* C38 (as stated): when an APPEND_PIECE began before another one had
\* written storage and both have completed, every piece appended is in the
\* archive, as long as the cap is not reached.
C38_AsStated ==
  (~sequential /\ AppendsCompleted /\ Len(appendLog) <= ARCHIVE_MAX) =>
    /\ Len(pieces_archive) = Len(appendLog)
    /\ \A i \in 1..Len(appendLog) :
         \E j \in 1..Len(pieces_archive) : pieces_archive[j] = appendLog[i]

\* ------------------------------------------------------------------ C39
\* The update of request r writes, for an event whose title normalizes to
\* the empty string.
EmptyTitleUpdate(r) ==
  /\ pc[r] = "updWrite" /\ pc'[r] = "done" /\ ~loc'[r].failed
  /\ normalizeTitle(loc[r].evt.title) = <<>>
\* The stored entries that are not older than the retention window at now.
Unexpired(now) ==
  SelectSeq(titles_batch, LAMBDA x : x.ts >= now - RetentionMs)

\* C39 (as stated): an accepted event whose title normalizes to the empty
\* string adds no entry to the Title Store: its update leaves the stored
\* entries without the expired ones, no stored entry has the id of the
\* empty string, the event is in the raw log and the request is answered
\* stored: true.
C39_AsStated ==
  /\ [](\A i \in 1..Len(titles_batch) : titles_batch[i].id # hashStr(<<>>))
  /\ [][\A r \in Requests :
          EmptyTitleUpdate(r) =>
            /\ titles_batch' = Unexpired(loc[r].now)
            /\ \E i \in 1..Len(events) : events[i] = loc[r].evt
            /\ resp'[r] = Stored(TRUE)]_vars

\* ------------------------------------------------------------------ C40
ReadActions ==
  {"GET_TITLES", "GET_PROFILE", "GET_ARCHIVE", "GET_STATUS", "LCL_GET_RECENT"}
\* The handler of request r, a read action, takes a step.
ReadStep(r) ==
  /\ msg'[r].type \in ReadActions
  /\ pc'[r] # pc[r] \/ resp'[r] # resp[r]

\* C40: a step of GET_TITLES, GET_PROFILE, GET_ARCHIVE, GET_STATUS or
\* GET_RECENT leaves every store as it is; GET_TITLES answers the stored
\* batch, expired entries included, and GET_ARCHIVE answers the mapped
\* entries without storing them.
C40_ReadsOnly ==
  [][\A r \in Requests :
       ReadStep(r) =>
         /\ storeVars' = storeVars
         /\ (msg[r].type = "GET_TITLES" /\ resp'[r].kind = "data") =>
              resp'[r].data = titles_batch
         /\ (msg[r].type = "GET_ARCHIVE" /\ resp'[r].kind = "data") =>
              /\ resp'[r].data = MappedArchive(pieces_archive)
              /\ pieces_archive' = pieces_archive]_vars
C40_Witness ==
  /\ \E r \in Requests :
       /\ msg[r].type = "GET_TITLES" /\ resp[r].kind = "data"
       /\ resp[r].data = titles_batch
       /\ Len(titles_batch) = 1
       /\ titles_batch[1].ts < clock - RetentionMs
  /\ \E r \in Requests :
       /\ msg[r].type = "GET_ARCHIVE" /\ resp[r].kind = "data"
       /\ resp[r].data # pieces_archive
       /\ pieces_archive = LegacyArchive
====
